---- MODULE Spec2Model ----
(***************************************************************************)
(* Verification model of the browser streaming server:                     *)
(*   - PendingSessionStore   (src/src/clone/StateSnapshot.ts)              *)
(*   - NetworkCache          (src/src/clone/NetworkCache.ts)               *)
(*   - event recording and navigation reset (src/server.ts)                *)
(*   - cloneSession orchestration (src/src/clone/NetworkCache.ts,          *)
(*     src/server.ts)                                                      *)
(*   - websocket open/close handlers (src/server.ts)                       *)
(* Each component has its own specification; the variables of the other    *)
(* components stay unchanged under it.                                     *)
(***************************************************************************)
EXTENDS Integers, Sequences, FiniteSets, TLC

\* ------------------------------------------------------------------------
\* Bounds
\* ------------------------------------------------------------------------
MaxTok == 2
MaxTime == 3
MaxBody == 4
MaxLog == 2
MaxClock == 150
RecTickMs == 50
MaxSrcLog == 2
MaxDelta == 1
MaxNav == 1
MaxMoves == 2
MaxReq == 2
MaxArrays == 4
MaxEvents == 4
MaxCapReq == 3
MaxCalls == 4
MaxSwitch == 1
MaxOverlap == 2
MaxReplay == 3
MaxStamp == 2
MaxSessions == 2
MaxInputs == 1

\* ------------------------------------------------------------------------
\* PendingSessionStore state
\* ------------------------------------------------------------------------
VARIABLES
  entries,       \* Map<connectionId, PendingEntry>: id -> [session, timeout]
  armed,         \* timer handles that setTimeout armed and nobody cleared/fired
  timerInfo,     \* timer handle -> [id (captured by the closure), deadline]
  nextTok,       \* next timer handle setTimeout returns
  disposeCalls,  \* calls of options.dispose, in order: [id, session, tok]
  inflight,      \* timer handles of entries whose options.dispose has not settled
  taken,         \* timer handles of the entries take has returned
  takeResult,    \* result of the last take: <<>> (none yet), <<"absent">> or <<session>>
  flushPc,       \* "idle" | "awaiting" | "resolved" | "rejected"
  flushSet,      \* handles of the entries the running flushAll disposed
  now            \* clock

storeVars == <<entries, armed, timerInfo, nextTok, disposeCalls, inflight,
               taken, takeResult, flushPc, flushSet, now>>

ConnIds == {"a", "b"}
Sessions == {"s1", "s2"}
\* options.ttlMs, in clock ticks
ttlMs == 2

Toks == 1..(MaxTok + 1)

\* Map.delete
MapDelete(m, k) == [x \in (DOMAIN m) \ {k} |-> m[x]]

\* Map.set
MapSet(m, k, v) == [x \in (DOMAIN m) \cup {k} |-> IF x = k THEN v ELSE m[x]]

\* number of options.dispose invocations for the entry with timer handle t
DisposeCount(t) == Cardinality({i \in 1..Len(disposeCalls) : disposeCalls[i].tok = t})

StoreInit ==
  /\ entries = <<>>
  /\ armed = {}
  /\ timerInfo = <<>>
  /\ nextTok = 1
  /\ disposeCalls = <<>>
  /\ inflight = {}
  /\ taken = {}
  /\ takeResult = <<>>
  /\ flushPc = "idle"
  /\ flushSet = {}
  /\ now = 0

\* remove(connectionId): clearTimeout(existing.timeout); entries.delete
RemoveArmed(id) == IF id \in DOMAIN entries THEN armed \ {entries[id].timeout} ELSE armed
RemoveEntries(id) == IF id \in DOMAIN entries THEN MapDelete(entries, id) ELSE entries

\* add with the remove(connectionId) left out: the earlier timer stays armed
AddKeepsOldTimer(id, s) ==
  /\ nextTok <= MaxTok
  /\ armed' = armed \cup {nextTok}
  /\ timerInfo' = MapSet(timerInfo, nextTok, [id |-> id, deadline |-> now + ttlMs])
  /\ entries' = MapSet(entries, id, [session |-> s, timeout |-> nextTok])
  /\ nextTok' = nextTok + 1
  /\ UNCHANGED <<disposeCalls, inflight, taken, takeResult, flushPc, flushSet, now>>

\* add(connectionId, session)
Add(id, s) ==
  /\ nextTok <= MaxTok
  /\ armed' = RemoveArmed(id) \cup {nextTok}
  /\ timerInfo' = MapSet(timerInfo, nextTok, [id |-> id, deadline |-> now + ttlMs])
  /\ entries' = MapSet(RemoveEntries(id), id, [session |-> s, timeout |-> nextTok])
  /\ nextTok' = nextTok + 1
  /\ UNCHANGED <<disposeCalls, inflight, taken, takeResult, flushPc, flushSet, now>>

\* take with the clearTimeout left out
TakeKeepsTimer(id) ==
  /\ IF id \in DOMAIN entries
       THEN /\ entries' = MapDelete(entries, id)
            /\ taken' = taken \cup {entries[id].timeout}
            /\ takeResult' = <<entries[id].session>>
       ELSE /\ takeResult' = <<"absent">>
            /\ UNCHANGED <<entries, taken>>
  /\ UNCHANGED <<armed, timerInfo, nextTok, disposeCalls, inflight, flushPc, flushSet, now>>

\* take with the entries.delete left out
TakeKeepsEntry(id) ==
  /\ IF id \in DOMAIN entries
       THEN /\ armed' = armed \ {entries[id].timeout}
            /\ taken' = taken \cup {entries[id].timeout}
            /\ takeResult' = <<entries[id].session>>
       ELSE /\ takeResult' = <<"absent">>
            /\ UNCHANGED <<armed, taken>>
  /\ UNCHANGED <<entries, timerInfo, nextTok, disposeCalls, inflight, flushPc, flushSet, now>>

\* take(connectionId)
Take(id) ==
  /\ IF id \in DOMAIN entries
       THEN /\ armed' = armed \ {entries[id].timeout}
            /\ entries' = MapDelete(entries, id)
            /\ taken' = taken \cup {entries[id].timeout}
            /\ takeResult' = <<entries[id].session>>
       ELSE /\ takeResult' = <<"absent">>
            /\ UNCHANGED <<entries, armed, taken>>
  /\ UNCHANGED <<timerInfo, nextTok, disposeCalls, inflight, flushPc, flushSet, now>>

\* the timer callback with the remove(connectionId) of dispose left out
TimerFireKeepsEntry(t) ==
  /\ t \in armed
  /\ now >= timerInfo[t].deadline
  /\ LET id == timerInfo[t].id IN
       IF id \in DOMAIN entries
         THEN /\ armed' = armed \ {t}
              /\ disposeCalls' = Append(disposeCalls,
                    [id |-> id, session |-> entries[id].session, tok |-> entries[id].timeout])
              /\ inflight' = inflight \cup {entries[id].timeout}
         ELSE /\ armed' = armed \ {t}
              /\ UNCHANGED <<disposeCalls, inflight>>
  /\ UNCHANGED <<entries, timerInfo, nextTok, taken, takeResult, flushPc, flushSet, now>>

\* the setTimeout callback of add, with dispose(connectionId, entry) inlined:
\* remove(connectionId), then options.dispose(connectionId, entry.session)
TimerFire(t) ==
  /\ t \in armed
  /\ now >= timerInfo[t].deadline
  /\ LET id == timerInfo[t].id IN
       IF id \in DOMAIN entries
         THEN /\ armed' = (armed \ {t}) \ {entries[id].timeout}
              /\ entries' = MapDelete(entries, id)
              /\ disposeCalls' = Append(disposeCalls,
                    [id |-> id, session |-> entries[id].session, tok |-> entries[id].timeout])
              /\ inflight' = inflight \cup {entries[id].timeout}
         ELSE /\ armed' = armed \ {t}
              /\ UNCHANGED <<entries, disposeCalls, inflight>>
  /\ UNCHANGED <<timerInfo, nextTok, taken, takeResult, flushPc, flushSet, now>>

\* the entries of the map as a sequence in some order (Array.from(entries.entries()))
RECURSIVE SeqOfIds(_)
SeqOfIds(S) ==
  IF S = {} THEN <<>>
  ELSE LET k == CHOOSE x \in S : TRUE IN <<k>> \o SeqOfIds(S \ {k})

\* flushAll with the clearTimeout of each entry left out
FlushAllKeepsTimers ==
  /\ flushPc = "idle"
  /\ LET ids == SeqOfIds(DOMAIN entries)
         calls == [i \in 1..Len(ids) |->
                     [id |-> ids[i], session |-> entries[ids[i]].session,
                      tok |-> entries[ids[i]].timeout]]
         toks == {entries[k].timeout : k \in DOMAIN entries}
     IN /\ entries' = <<>>
        /\ disposeCalls' = disposeCalls \o calls
        /\ inflight' = inflight \cup toks
        /\ flushSet' = toks
        /\ flushPc' = IF toks = {} THEN "resolved" ELSE "awaiting"
  /\ UNCHANGED <<armed, timerInfo, nextTok, taken, takeResult, now>>

\* flushAll up to its await: entries.clear(), then per entry clearTimeout and
\* options.dispose
FlushAll ==
  /\ flushPc = "idle"
  /\ LET ids == SeqOfIds(DOMAIN entries)
         calls == [i \in 1..Len(ids) |->
                     [id |-> ids[i], session |-> entries[ids[i]].session,
                      tok |-> entries[ids[i]].timeout]]
         toks == {entries[k].timeout : k \in DOMAIN entries}
     IN /\ entries' = <<>>
        /\ armed' = armed \ toks
        /\ disposeCalls' = disposeCalls \o calls
        /\ inflight' = inflight \cup toks
        /\ flushSet' = toks
        /\ flushPc' = IF toks = {} THEN "resolved" ELSE "awaiting"
  /\ UNCHANGED <<timerInfo, nextTok, taken, takeResult, now>>

\* a promise returned by options.dispose settles; Promise.all of flushAll
\* resolves when the last one fulfils and rejects at the first rejection
DisposeSettle(t, ok) ==
  /\ t \in inflight
  /\ inflight' = inflight \ {t}
  /\ flushPc' = IF flushPc = "awaiting" /\ t \in flushSet
                  THEN IF ~ok THEN "rejected"
                       ELSE IF flushSet \cap inflight = {t} THEN "resolved"
                       ELSE "awaiting"
                  ELSE flushPc
  /\ UNCHANGED <<entries, armed, timerInfo, nextTok, disposeCalls, taken, takeResult,
                 flushSet, now>>

\* time passes
Tick ==
  /\ now < MaxTime
  /\ now' = now + 1
  /\ UNCHANGED <<entries, armed, timerInfo, nextTok, disposeCalls, inflight, taken,
                 takeResult, flushPc, flushSet>>


\* ------------------------------------------------------------------------
\* NetworkCache
\* A cache object is [cache, totalSize]: cache is the Map in insertion order,
\* a sequence of [key, response]; a response is [size, resourceType, body],
\* size being body.length.
\* ------------------------------------------------------------------------
VARIABLES
  nc,      \* the NetworkCache object
  lastOp   \* the last call on it: [op, key, response, result, before]; before is
           \* the cache as it was when a set was called

cacheVars == <<nc, lastOp>>

\* options.maxSize and options.maxResponseSize, in bytes
maxSize == 4
maxResponseSize == 2

Keys == {"k1", "k2"}
essentialTypes == {"document", "script", "stylesheet", "xhr", "fetch"}
ResourceTypes == {"document", "image"}
BodySizes == 0..MaxBody
BodyContents == {"x"}
Responses == [size : BodySizes, resourceType : ResourceTypes, body : BodyContents]

\* new NetworkCache()
EmptyCache == [cache |-> <<>>, totalSize |-> 0]

\* Map.has / Map.get on the insertion-ordered map
MapHas(m, k) == \E i \in 1..Len(m) : m[i].key = k
MapIndex(m, k) == CHOOSE i \in 1..Len(m) : m[i].key = k
MapGet(m, k) == m[MapIndex(m, k)].response

\* Map.set: an existing key keeps its position, a new key goes last
MapPut(m, k, r) ==
  IF MapHas(m, k)
    THEN [i \in 1..Len(m) |-> IF m[i].key = k THEN [key |-> k, response |-> r] ELSE m[i]]
    ELSE Append(m, [key |-> k, response |-> r])

\* Map.delete
MapRemove(m, k) == SelectSeq(m, LAMBDA e : e.key # k)

\* sum of body.length over the stored responses
RECURSIVE SumBodies(_)
SumBodies(m) == IF m = <<>> THEN 0 ELSE Head(m).response.size + SumBodies(Tail(m))

\* shouldCache with the size test made inclusive
shouldCacheInclusive(response) ==
  \/ response.resourceType \in essentialTypes
  \/ response.size <= maxResponseSize

\* shouldCache(response)
shouldCache(response) ==
  \/ response.resourceType \in essentialTypes
  \/ response.size < maxResponseSize

\* set adding the size to the total before the global ceiling test
NCSetCountsRefused(c, key, response) ==
  IF ~shouldCache(response) THEN [nc |-> c, ok |-> FALSE]
  ELSE LET oldSize == IF MapHas(c.cache, key) THEN MapGet(c.cache, key).size ELSE 0
           netSizeChange == response.size - oldSize
       IN IF c.totalSize + netSizeChange > maxSize
            THEN [nc |-> [cache |-> c.cache, totalSize |-> c.totalSize + netSizeChange],
                  ok |-> FALSE]
            ELSE [nc |-> [cache |-> MapPut(c.cache, key, response),
                          totalSize |-> c.totalSize + netSizeChange],
                  ok |-> TRUE]

\* set without the global ceiling test
NCSetNoCeiling(c, key, response) ==
  IF ~shouldCache(response) THEN [nc |-> c, ok |-> FALSE]
  ELSE LET oldSize == IF MapHas(c.cache, key) THEN MapGet(c.cache, key).size ELSE 0
           netSizeChange == response.size - oldSize
       IN [nc |-> [cache |-> MapPut(c.cache, key, response),
                   totalSize |-> c.totalSize + netSizeChange],
           ok |-> TRUE]

\* set(key, response) testing the ceiling against the gross addition
NCSetGrossAddition(c, key, response) ==
  IF ~shouldCache(response) THEN [nc |-> c, ok |-> FALSE]
  ELSE LET oldSize == IF MapHas(c.cache, key) THEN MapGet(c.cache, key).size ELSE 0
           netSizeChange == response.size - oldSize
       IN IF c.totalSize + response.size > maxSize
            THEN [nc |-> c, ok |-> FALSE]
            ELSE [nc |-> [cache |-> MapPut(c.cache, key, response),
                          totalSize |-> c.totalSize + netSizeChange],
                  ok |-> TRUE]

\* set(key, response): the cache after the call and the returned boolean
NCSet(c, key, response) ==
  IF ~shouldCache(response) THEN [nc |-> c, ok |-> FALSE]
  ELSE LET oldSize == IF MapHas(c.cache, key) THEN MapGet(c.cache, key).size ELSE 0
           netSizeChange == response.size - oldSize
       IN IF c.totalSize + netSizeChange > maxSize
            THEN [nc |-> c, ok |-> FALSE]
            ELSE [nc |-> [cache |-> MapPut(c.cache, key, response),
                          totalSize |-> c.totalSize + netSizeChange],
                  ok |-> TRUE]

\* clear()
NCClear(c) == [cache |-> <<>>, totalSize |-> 0]

\* delete(key)
NCDelete(c, key) ==
  IF MapHas(c.cache, key)
    THEN [nc |-> [cache |-> MapRemove(c.cache, key),
                  totalSize |-> c.totalSize - MapGet(c.cache, key).size],
          ok |-> TRUE]
    ELSE [nc |-> c, ok |-> FALSE]

\* export(): the entries in map order
NCExport(c) == c.cache

\* import(data): clear(), then set(key, response) per entry in order
RECURSIVE NCImportFrom(_, _)
NCImportFrom(c, data) ==
  IF data = <<>> THEN c
  ELSE NCImportFrom(NCSet(c, Head(data).key, Head(data).response).nc, Tail(data))

\* import without its clear()
NCImportNoClear(c, data) == NCImportFrom(c, data)

NCImport(c, data) == NCImportFrom(NCClear(c), data)

\* getStats()
NCStats(c) ==
  [entries |-> Len(c.cache),
   totalSize |-> c.totalSize,
   sizeByType |-> [t \in {c.cache[i].response.resourceType : i \in 1..Len(c.cache)} |->
                     SumBodies(SelectSeq(c.cache, LAMBDA e : e.response.resourceType = t))]]

\* the lists import is called with: up to two entries, keys may repeat
ImportData ==
  LET E == [key : Keys, response : Responses]
  IN {<<>>} \cup {<<e>> : e \in E} \cup {<<e1, e2>> : e1 \in E, e2 \in E}

CacheInit ==
  /\ nc = EmptyCache
  /\ lastOp = [op |-> "new", key |-> "k1", response |-> <<>>, result |-> TRUE,
               before |-> EmptyCache]

CacheSet(key, response) ==
  /\ nc' = NCSet(nc, key, response).nc
  /\ lastOp' = [op |-> "set", key |-> key, response |-> <<response>>,
                result |-> NCSet(nc, key, response).ok, before |-> nc]

CacheDelete(key) ==
  /\ nc' = NCDelete(nc, key).nc
  /\ lastOp' = [op |-> "delete", key |-> key, response |-> <<>>,
                result |-> NCDelete(nc, key).ok, before |-> EmptyCache]

CacheClear ==
  /\ nc' = NCClear(nc)
  /\ lastOp' = [op |-> "clear", key |-> "k1", response |-> <<>>, result |-> TRUE,
                before |-> EmptyCache]

CacheImport(data) ==
  /\ nc' = NCImport(nc, data)
  /\ lastOp' = [op |-> "import", key |-> "k1", response |-> <<>>, result |-> TRUE,
                before |-> EmptyCache]


\* ------------------------------------------------------------------------
\* Event recording of one live session (websocket.message, resetEventRecording,
\* bindNavigationReset)
\* ------------------------------------------------------------------------
VARIABLES
  eventLog,              \* session.eventLog; each record also carries epoch, the
                         \* number of navigation resets that preceded its recording
  sessionStartTime,      \* session.sessionStartTime
  isRecording,           \* session.isRecording
  mouseMoveAccumulator,  \* session.mouseMoveAccumulator
  scrollAccumulator,     \* session.scrollAccumulator
  lastNavigatedUrl,      \* session.lastNavigatedUrl
  clock,                 \* Date.now()
  navEpoch,              \* number of navigation resets so far
  pushed,                \* number of records ever appended to the log
  lastHandled,           \* the last step: [kind, changed], kind being "message",
                         \* "framenavigated", "tick" or "none"
  burst,                 \* the mouse moves of the aggregation window in progress:
                         \* [open, start, xs, appended]; xs the x of the moves received,
                         \* appended the x of the mouseMoved records appended
  wheelWindow,           \* the wheel events received while recording since the last
                         \* flush or reset of the scroll accumulator: [deltaX, deltaY, x, y]
  wheelSince             \* when that flush or reset happened

recVars == <<eventLog, sessionStartTime, isRecording, mouseMoveAccumulator,
             scrollAccumulator, lastNavigatedUrl, clock, navEpoch, pushed,
             lastHandled, burst, wheelWindow, wheelSince>>

wheelVars == <<wheelWindow, wheelSince>>

AGGREGATE_INTERVAL == 100

Urls == {"u1", "u2"}
Xs == {1, 2}

RecInit ==
  /\ eventLog = <<>>
  /\ sessionStartTime = 0
  /\ isRecording = TRUE
  /\ mouseMoveAccumulator = [lastX |-> 0, lastY |-> 0, lastButton |-> "none",
                             lastModifiers |-> 0, lastFlush |-> 0]
  /\ scrollAccumulator = [deltaX |-> 0, deltaY |-> 0, lastX |-> 0, lastY |-> 0,
                          lastModifiers |-> 0, lastFlush |-> 0]
  /\ lastNavigatedUrl = "u1"
  /\ clock = 0
  /\ navEpoch = 0
  /\ pushed = 0
  /\ lastHandled = [kind |-> "none", changed |-> FALSE]
  /\ burst = [open |-> FALSE, start |-> 0, xs |-> <<>>, appended |-> <<>>]
  /\ wheelWindow = <<>>
  /\ wheelSince = 0

\* the window bookkeeping after a mouse move with coordinate x that appended
\* records with the coordinates app: a move arriving AGGREGATE_INTERVAL or more after the first
\* move of the window in progress starts a new window
BurstAfterMove(x, app) ==
  IF burst.open /\ clock - burst.start < AGGREGATE_INTERVAL
    THEN [burst EXCEPT !.xs = Append(@, x), !.appended = @ \o app]
    ELSE [open |-> TRUE, start |-> clock, xs |-> <<x>>, appended |-> app]

\* websocket.message, type mouseMoved (recording part)
MouseMoved(x, y, button, modifiers) ==
  /\ Len(eventLog) < MaxLog
  /\ Len(burst.xs) < MaxMoves \/ clock - burst.start >= AGGREGATE_INTERVAL
  /\ IF isRecording
       THEN LET acc == [mouseMoveAccumulator EXCEPT !.lastX = x, !.lastY = y,
                           !.lastButton = button, !.lastModifiers = modifiers]
                rec == [type |-> "mouseMoved", timestamp |-> clock,
                        relativeTime |-> clock - sessionStartTime,
                        data |-> [x |-> acc.lastX, y |-> acc.lastY,
                                  button |-> acc.lastButton,
                                  modifiers |-> acc.lastModifiers],
                        epoch |-> navEpoch]
            IN IF clock - mouseMoveAccumulator.lastFlush >= AGGREGATE_INTERVAL
                 THEN /\ eventLog' = Append(eventLog, rec)
                      /\ mouseMoveAccumulator' = [acc EXCEPT !.lastFlush = clock]
                      /\ pushed' = pushed + 1
                      /\ burst' = BurstAfterMove(x, <<rec.data.x>>)
                 ELSE /\ mouseMoveAccumulator' = acc
                      /\ burst' = BurstAfterMove(x, <<>>)
                      /\ UNCHANGED <<eventLog, pushed>>
       ELSE UNCHANGED <<eventLog, mouseMoveAccumulator, pushed, burst>>
  /\ lastHandled' = [kind |-> "message", changed |-> FALSE]
  /\ UNCHANGED <<sessionStartTime, isRecording, scrollAccumulator, lastNavigatedUrl,
                 clock, navEpoch, wheelVars>>

\* the scroll accumulator taking the position of a wheel event and dropping
\* what it had accumulated
AccumulateOverwrites(acc, x, y, deltaX, deltaY, modifiers) ==
  [acc EXCEPT !.deltaX = deltaX, !.deltaY = deltaY, !.lastX = x, !.lastY = y,
              !.lastModifiers = modifiers]

\* the scroll accumulator after a wheel event: deltas added, position and
\* modifiers replaced
Accumulate(acc, x, y, deltaX, deltaY, modifiers) ==
  [acc EXCEPT !.deltaX = @ + deltaX, !.deltaY = @ + deltaY, !.lastX = x, !.lastY = y,
              !.lastModifiers = modifiers]

\* websocket.message, type mouseWheel (recording part). An appended record
\* also carries window, the wheel events it aggregates, and since, the time
\* of the flush or reset before them
MouseWheel(x, y, deltaX, deltaY, modifiers) ==
  /\ Len(eventLog) < MaxLog
  /\ scrollAccumulator.deltaX + deltaX \in (0 - MaxDelta)..MaxDelta
  /\ scrollAccumulator.deltaY + deltaY \in (0 - MaxDelta)..MaxDelta
  /\ Len(wheelWindow) < MaxMoves \/ clock - scrollAccumulator.lastFlush >= AGGREGATE_INTERVAL
  /\ IF isRecording
       THEN LET acc == Accumulate(scrollAccumulator, x, y, deltaX, deltaY, modifiers)
                window == Append(wheelWindow,
                                 [deltaX |-> deltaX, deltaY |-> deltaY, x |-> x, y |-> y])
                rec == [type |-> "mouseWheel", timestamp |-> clock,
                        relativeTime |-> clock - sessionStartTime,
                        data |-> [x |-> acc.lastX, y |-> acc.lastY,
                                  deltaX |-> acc.deltaX, deltaY |-> acc.deltaY,
                                  modifiers |-> acc.lastModifiers],
                        epoch |-> navEpoch, window |-> window, since |-> wheelSince]
            IN IF clock - scrollAccumulator.lastFlush >= AGGREGATE_INTERVAL
                 THEN /\ IF acc.deltaX # 0 \/ acc.deltaY # 0
                           THEN eventLog' = Append(eventLog, rec) /\ pushed' = pushed + 1
                           ELSE UNCHANGED <<eventLog, pushed>>
                      /\ scrollAccumulator' = [acc EXCEPT !.deltaX = 0, !.deltaY = 0,
                                                          !.lastFlush = clock]
                      /\ wheelWindow' = <<>>
                      /\ wheelSince' = clock
                 ELSE /\ scrollAccumulator' = acc
                      /\ wheelWindow' = window
                      /\ UNCHANGED <<eventLog, pushed, wheelSince>>
       ELSE UNCHANGED <<eventLog, scrollAccumulator, pushed, wheelVars>>
  /\ lastHandled' = [kind |-> "message", changed |-> FALSE]
  /\ UNCHANGED <<sessionStartTime, isRecording, mouseMoveAccumulator, lastNavigatedUrl,
                 clock, navEpoch, burst>>

\* websocket.message, the other replayable types (recording part): data is the
\* whole message
OtherInput(type, x) ==
  /\ Len(eventLog) < MaxLog
  /\ IF isRecording
       THEN /\ eventLog' = Append(eventLog,
                 [type |-> type, timestamp |-> clock,
                  relativeTime |-> clock - sessionStartTime,
                  data |-> [type |-> type, x |-> x], epoch |-> navEpoch])
            /\ pushed' = pushed + 1
       ELSE UNCHANGED <<eventLog, pushed>>
  /\ lastHandled' = [kind |-> "message", changed |-> FALSE]
  /\ UNCHANGED <<sessionStartTime, isRecording, mouseMoveAccumulator, scrollAccumulator,
                 lastNavigatedUrl, clock, navEpoch, burst, wheelVars>>

\* websocket.message, type toggleRecording
ToggleRecording(enabled) ==
  /\ isRecording' = IF enabled = "absent" THEN ~isRecording ELSE (enabled = "true")
  /\ lastHandled' = [kind |-> "message", changed |-> FALSE]
  /\ burst' = [burst EXCEPT !.open = FALSE]
  /\ UNCHANGED <<eventLog, sessionStartTime, mouseMoveAccumulator, scrollAccumulator,
                 lastNavigatedUrl, clock, navEpoch, pushed, wheelVars>>

\* resetEventRecording that keeps the log
resetKeepsLog(log) == log

\* resetEventRecording: the new session.eventLog
resetEventLog(log) == <<>>

\* the framenavigated handler of bindNavigationReset, resetEventRecording inlined
FrameNavigated(isMain, newUrl) ==
  /\ navEpoch < MaxNav
  /\ IF isMain /\ newUrl # lastNavigatedUrl
       THEN /\ lastNavigatedUrl' = newUrl
            /\ eventLog' = resetEventLog(eventLog)
            /\ sessionStartTime' = clock
            /\ scrollAccumulator' = [scrollAccumulator EXCEPT !.deltaX = 0, !.deltaY = 0,
                                                               !.lastFlush = clock]
            /\ mouseMoveAccumulator' = [mouseMoveAccumulator EXCEPT !.lastFlush = clock]
            /\ navEpoch' = navEpoch + 1
            /\ lastHandled' = [kind |-> "framenavigated", changed |-> TRUE]
            /\ burst' = [burst EXCEPT !.open = FALSE]
            /\ wheelWindow' = <<>>
            /\ wheelSince' = clock
       ELSE /\ lastHandled' = [kind |-> "framenavigated", changed |-> FALSE]
            /\ UNCHANGED <<lastNavigatedUrl, eventLog, sessionStartTime, scrollAccumulator,
                           mouseMoveAccumulator, navEpoch, burst, wheelVars>>
  /\ UNCHANGED <<isRecording, clock, pushed>>

\* Date.now() advances
RecTick ==
  /\ clock < MaxClock
  /\ clock' = clock + RecTickMs
  /\ lastHandled' = [kind |-> "tick", changed |-> FALSE]
  /\ UNCHANGED <<eventLog, sessionStartTime, isRecording, mouseMoveAccumulator,
                 scrollAccumulator, lastNavigatedUrl, navEpoch, pushed, burst, wheelVars>>


\* ------------------------------------------------------------------------
\* Cloning: cloneSession and its helpers, the cloneSession case of
\* websocket.message, disposeSession. Objects live in heaps so that sharing
\* between the source and the clone is visible:
\*   cacheHeap[r]  a NetworkCache object
\*   arrays[r]     an event log array, a sequence of references into events
\*   events[r]     a RecordedEvent [type, timestamp, relativeTime, data], data
\*                 being a reference into datas
\*   datas[r]      a payload object [x]
\* The browser is openContexts, openPages and attached (the debug channels
\* that are attached). The source session has context "ctx1", page "p1",
\* channels "c1" and "n1"; the clone target gets page "p2" and channels "c2"
\* and "n2".
\* ------------------------------------------------------------------------
VARIABLES
  sess,          \* the SessionContext objects: "src", and "clone" once built
  cacheHeap, arrays, events, datas,
  openContexts, openPages, attached,
  pc,            \* position of the cloneSession message handler
  manifest,      \* CloneManifest: [networkCacheSnapshot, eventLog]
  clonedCache,   \* reference of clonedCache, 0 before it is constructed
  targetAttached,
  listener,      \* the Fetch.requestPaused handler is registered on "c2"
  cdpCalls,      \* protocol calls sent on "c2", in order
  reqs,          \* paused requests emitted on "c2": [key, afterCleanup, cached,
                 \* served, calls, state, result]
  cleanedUp,     \* the teardown returned by setupCacheInterception has run
  installed,     \* setupCacheInterception has completed
  disposed,      \* sessions disposeSession has run on
  ctxClosedBy,   \* sessions whose disposeSession closed the context
  cloneLive,     \* the clone is held by the live map (a client attached)
  errorSent,     \* the handler sent the 'Clone failed' error message
  progress       \* the calls of the progress callback: [stage, progress]

cloneVars == <<sess, cacheHeap, arrays, events, datas, openContexts, openPages,
               attached, pc, manifest, clonedCache, targetAttached, listener,
               cdpCalls, reqs, cleanedUp, installed, disposed, ctxClosedBy,
               cloneLive, errorSent, progress>>

CloneKeys == {"k1"}
CloneResponses == {[size |-> 1, resourceType |-> "document", body |-> "x",
                    status |-> 200,
                    responseHeaders |-> ("content-type" :> "text/html")]}
SessNames == {"src", "clone"}
clonedConnectionId == "a"

PagesOf(ctx) == IF ctx = "ctx1" THEN {"p1", "p2"} ELSE {}
ChannelsOf(page) == IF page = "p1" THEN {"c1", "n1"} ELSE IF page = "p2" THEN {"c2", "n2"} ELSE {}

CloneInit ==
  /\ sess = ("src" :> [context |-> "ctx1", page |-> "p1", cdp |-> "c1",
                       networkCdp |-> "n1", networkCache |-> 1, eventLog |-> 1,
                       isRecording |-> TRUE, ownsContext |-> TRUE,
                       networkCaptureEnabled |-> TRUE])
  /\ cacheHeap = <<EmptyCache>>
  /\ arrays = << <<>> >>
  /\ events = <<>>
  /\ datas = <<>>
  /\ openContexts = {"ctx1"}
  /\ openPages = {"p1"}
  /\ attached = {"c1", "n1"}
  /\ pc = "idle"
  /\ manifest = [networkCacheSnapshot |-> <<>>, eventLog |-> 0]
  /\ clonedCache = 0
  /\ targetAttached = FALSE
  /\ listener = FALSE
  /\ cdpCalls = <<>>
  /\ reqs = <<>>
  /\ cleanedUp = FALSE
  /\ installed = FALSE
  /\ disposed = {}
  /\ ctxClosedBy = {}
  /\ cloneLive = FALSE
  /\ errorSent = FALSE
  /\ progress = <<>>

\* the records of a session's event log, payloads included
LogView(s) ==
  LET arr == arrays[sess[s].eventLog]
  IN [i \in 1..Len(arr) |->
        [type |-> events[arr[i]].type, timestamp |-> events[arr[i]].timestamp,
         relativeTime |-> events[arr[i]].relativeTime,
         data |-> datas[events[arr[i]].data]]]

\* the entries and stats of a session's cache
CacheView(s) ==
  [entries |-> cacheHeap[sess[s].networkCache].cache,
   stats |-> NCStats(cacheHeap[sess[s].networkCache])]

\* cloneRecordedEvent returning its argument instead of a copy
cloneRecordedEventShared(h, r) == [events |-> h.events, datas |-> h.datas, ref |-> r]

\* cloneRecordedEvent(event) on the heap h = [events, datas]: a new record with
\* the same type and times and a new payload object with the same fields
cloneRecordedEvent(h, r) ==
  [events |-> Append(h.events, [h.events[r] EXCEPT !.data = Len(h.datas) + 1]),
   datas |-> Append(h.datas, h.datas[h.events[r].data]),
   ref |-> Len(h.events) + 1]

\* manifest.eventLog.map(cloneRecordedEvent): the heap after it and the new array
RECURSIVE MapClone(_, _, _)
MapClone(h, refs, out) ==
  IF refs = <<>> THEN [events |-> h.events, datas |-> h.datas, out |-> out]
  ELSE LET c == cloneRecordedEvent(h, Head(refs))
       IN MapClone([events |-> c.events, datas |-> c.datas], Tail(refs), Append(out, c.ref))

\* ---- operations on a session's log and cache ----

\* eventLog.push(record) with a new payload object
LogAppend(s, x) ==
  /\ s \in DOMAIN sess
  /\ Len(arrays[sess[s].eventLog]) < MaxSrcLog
  /\ Len(events) < MaxEvents
  /\ datas' = Append(datas, [x |-> x])
  /\ events' = Append(events, [type |-> "mousePressed", timestamp |-> Len(events),
                               relativeTime |-> Len(events), data |-> Len(datas) + 1])
  /\ arrays' = [arrays EXCEPT ![sess[s].eventLog] = Append(@, Len(events) + 1)]
  /\ UNCHANGED <<sess, cacheHeap, openContexts, openPages, attached, pc, manifest,
                 clonedCache, targetAttached, listener, cdpCalls, reqs, cleanedUp,
                 installed, disposed, ctxClosedBy, cloneLive, errorSent, progress>>

\* session.eventLog = [] (resetEventRecording)
LogClear(s) ==
  /\ s \in DOMAIN sess
  /\ arrays[sess[s].eventLog] # <<>>
  /\ Len(arrays) < MaxArrays
  /\ arrays' = Append(arrays, <<>>)
  /\ sess' = [sess EXCEPT ![s].eventLog = Len(arrays) + 1]
  /\ UNCHANGED <<cacheHeap, events, datas, openContexts, openPages, attached, pc,
                 manifest, clonedCache, targetAttached, listener, cdpCalls, reqs,
                 cleanedUp, installed, disposed, ctxClosedBy, cloneLive, errorSent, progress>>

\* assignment to a field of the payload of the i-th record of a log
EditData(s, i, x) ==
  /\ s \in DOMAIN sess
  /\ i \in 1..Len(arrays[sess[s].eventLog])
  /\ datas' = [datas EXCEPT ![events[arrays[sess[s].eventLog][i]].data].x = x]
  /\ UNCHANGED <<sess, cacheHeap, arrays, events, openContexts, openPages, attached,
                 pc, manifest, clonedCache, targetAttached, listener, cdpCalls, reqs,
                 cleanedUp, installed, disposed, ctxClosedBy, cloneLive, errorSent, progress>>

\* assignment to the timestamp field of the i-th record of a log
EditTimestamp(s, i, t) ==
  /\ s \in DOMAIN sess
  /\ i \in 1..Len(arrays[sess[s].eventLog])
  /\ events' = [events EXCEPT ![arrays[sess[s].eventLog][i]].timestamp = t]
  /\ UNCHANGED <<sess, cacheHeap, arrays, datas, openContexts, openPages, attached,
                 pc, manifest, clonedCache, targetAttached, listener, cdpCalls, reqs,
                 cleanedUp, installed, disposed, ctxClosedBy, cloneLive, errorSent, progress>>

\* session.networkCache.set(key, response)
SessCacheSet(s, key, response) ==
  /\ s \in DOMAIN sess
  /\ cacheHeap' = [cacheHeap EXCEPT ![sess[s].networkCache] = NCSet(@, key, response).nc]
  /\ UNCHANGED <<sess, arrays, events, datas, openContexts, openPages, attached, pc,
                 manifest, clonedCache, targetAttached, listener, cdpCalls, reqs,
                 cleanedUp, installed, disposed, ctxClosedBy, cloneLive, errorSent, progress>>

\* session.networkCache.clear()
SessCacheClear(s) ==
  /\ s \in DOMAIN sess
  /\ cacheHeap[sess[s].networkCache].cache # <<>>
  /\ cacheHeap' = [cacheHeap EXCEPT ![sess[s].networkCache] = NCClear(@)]
  /\ UNCHANGED <<sess, arrays, events, datas, openContexts, openPages, attached, pc,
                 manifest, clonedCache, targetAttached, listener, cdpCalls, reqs,
                 cleanedUp, installed, disposed, ctxClosedBy, cloneLive, errorSent, progress>>


\* ---- cloneSession ----

dataVars == <<cacheHeap, arrays, events, datas>>
browserVars == <<openContexts, openPages, attached>>
interceptVars == <<listener, cdpCalls, reqs, cleanedUp, installed>>
lifeVars == <<disposed, ctxClosedBy, cloneLive>>

\* reportProgress with no callback given
reportProgressNoCallback(stage, p) == UNCHANGED progress

\* reportProgress(onProgress, stage, progress, message)
reportProgress(stage, p) == progress' = Append(progress, [stage |-> stage, progress |-> p])

\* the handler's catch block: the 'Clone failed' error message
Failed ==
  /\ pc' = "failed"
  /\ errorSent' = TRUE
  /\ UNCHANGED progress

\* case 'cloneSession' up to context.newPage(): createManifest, new
\* NetworkCache(), clonedCache.import(manifest.networkCacheSnapshot), then
\* createTargetPage calls newPage; capturePageSnapshot throws without viewport
CloneBegin(ok) ==
  /\ pc = "idle"
  /\ "src" \notin disposed
  /\ IF ok
       THEN /\ manifest' = [networkCacheSnapshot |-> NCExport(cacheHeap[sess["src"].networkCache]),
                            eventLog |-> Len(arrays) + 1]
            /\ arrays' = Append(arrays, arrays[sess["src"].eventLog])
            /\ cacheHeap' = Append(cacheHeap,
                                   NCImport(EmptyCache, NCExport(cacheHeap[sess["src"].networkCache])))
            /\ clonedCache' = Len(cacheHeap) + 1
            /\ pc' = "newPage"
            /\ UNCHANGED errorSent
            /\ reportProgress("initializing", 10)
       ELSE /\ Failed
            /\ UNCHANGED <<manifest, arrays, cacheHeap, clonedCache>>
  /\ UNCHANGED <<sess, events, datas, browserVars, targetAttached, interceptVars, lifeVars>>

\* createTargetPage: sourceSession.context.newPage() settles; on success
\* page.setViewportSize is called
NewPageDone(ok) ==
  /\ pc = "newPage"
  /\ ok => "ctx1" \in openContexts
  /\ IF ok
       THEN /\ openPages' = openPages \cup {"p2"}
            /\ pc' = "viewport"
            /\ UNCHANGED <<errorSent, progress>>
       ELSE /\ Failed
            /\ UNCHANGED openPages
  /\ UNCHANGED <<sess, dataVars, openContexts, attached, manifest, clonedCache,
                 targetAttached, interceptVars, lifeVars>>

\* createTargetPage: page.setViewportSize settles; on success
\* context.newCDPSession(page) is called
ViewportDone(ok) ==
  /\ pc = "viewport"
  /\ ok => "p2" \in openPages
  /\ IF ok THEN pc' = "newCDP" /\ UNCHANGED <<errorSent, progress>> ELSE Failed
  /\ UNCHANGED <<sess, dataVars, browserVars, manifest, clonedCache, targetAttached,
                 interceptVars, lifeVars>>

\* createTargetPage: newCDPSession settles; on success cloneSession sets
\* targetAttached and setupCacheInterception sends Fetch.enable
NewCDPDone(ok) ==
  /\ pc = "newCDP"
  /\ ok => "p2" \in openPages
  /\ IF ok
       THEN /\ attached' = attached \cup {"c2"}
            /\ targetAttached' = TRUE
            /\ cdpCalls' = Append(cdpCalls, "Fetch.enable")
            /\ pc' = "fetchEnable"
            /\ UNCHANGED errorSent
            /\ reportProgress("loading", 15)
       ELSE /\ Failed
            /\ UNCHANGED <<attached, targetAttached, cdpCalls>>
  /\ UNCHANGED <<sess, dataVars, openContexts, openPages, manifest, clonedCache,
                 listener, reqs, cleanedUp, installed, lifeVars>>

\* setupCacheInterception: Fetch.enable settles; on success the handler is
\* registered and cloneSession enters its try block and calls page.goto
FetchEnableDone(ok) ==
  /\ pc = "fetchEnable"
  /\ ok => "c2" \in attached
  /\ IF ok
       THEN /\ listener' = TRUE
            /\ installed' = TRUE
            /\ pc' = "goto"
            /\ UNCHANGED errorSent
            /\ reportProgress("loading", 25)
       ELSE /\ Failed
            /\ UNCHANGED <<listener, installed>>
  /\ UNCHANGED <<sess, dataVars, browserVars, manifest, clonedCache, targetAttached,
                 cdpCalls, reqs, cleanedUp, lifeVars>>

\* the finally block up to its first await: teardown() removes the listener
\* and sends Fetch.disable
TeardownStart ==
  /\ listener' = FALSE
  /\ cdpCalls' = Append(cdpCalls, "Fetch.disable")
  /\ cleanedUp' = TRUE

\* the end of the try block on success: the clonedSession object is built,
\* targetAttached is reset, and the finally block starts
BuildAndTeardown ==
  LET m == MapClone([events |-> events, datas |-> datas], arrays[manifest.eventLog], <<>>)
  IN /\ events' = m.events
     /\ datas' = m.datas
     /\ arrays' = Append(arrays, m.out)
     /\ sess' = sess @@ ("clone" :> [context |-> "ctx1", page |-> "p2", cdp |-> "c2",
                                     networkCdp |-> "none", networkCache |-> clonedCache,
                                     eventLog |-> Len(arrays) + 1, isRecording |-> TRUE,
                                     ownsContext |-> FALSE,
                                     networkCaptureEnabled |-> FALSE])
     /\ targetAttached' = FALSE
     /\ TeardownStart
     /\ pc' = "disableOk"
     /\ reportProgress("complete", 100)
     /\ UNCHANGED <<cacheHeap, errorSent>>

\* a failure inside the try block that skips teardown()
FailTeardownSkipped ==
  /\ pc' = "disableFail"
  /\ UNCHANGED <<sess, dataVars, targetAttached, errorSent, progress, listener, cdpCalls, cleanedUp>>

\* a rejection inside the try block: the finally block starts
FailTeardown ==
  /\ TeardownStart
  /\ pc' = "disableFail"
  /\ UNCHANGED <<sess, dataVars, targetAttached, errorSent, progress>>

\* page.goto settles
GotoDone(ok) ==
  /\ pc = "goto"
  /\ ok => "p2" \in openPages
  /\ IF ok
       THEN IF arrays[manifest.eventLog] # <<>>
              THEN /\ pc' = "replay"
                   /\ reportProgress("replaying", 70)
                   /\ UNCHANGED <<sess, dataVars, targetAttached, errorSent, listener,
                                  cdpCalls, cleanedUp>>
              ELSE BuildAndTeardown
       ELSE FailTeardown
  /\ UNCHANGED <<browserVars, manifest, clonedCache, reqs, installed, lifeVars>>

\* replayEvents settles (it rejects when page.evaluate rejects)
ReplayDone(ok) ==
  /\ pc = "replay"
  /\ ok => "p2" \in openPages
  /\ IF ok THEN BuildAndTeardown ELSE FailTeardown
  /\ UNCHANGED <<browserVars, manifest, clonedCache, reqs, installed, lifeVars>>

\* the finally block clearing the source session's cache instead of the
\* clone's import
DisableDoneClearsSource ==
  /\ pc \in {"disableOk", "disableFail"}
  /\ cacheHeap' = [cacheHeap EXCEPT ![sess["src"].networkCache] = NCClear(@)]
  /\ IF targetAttached
       THEN /\ attached' = attached \ ChannelsOf("p2")
            /\ openPages' = openPages \ {"p2"}
       ELSE UNCHANGED <<attached, openPages>>
  /\ IF pc = "disableOk"
       THEN /\ pc' = "postCDP"
            /\ sess' = [sess EXCEPT !["clone"].networkCaptureEnabled = TRUE]
            /\ UNCHANGED <<errorSent, progress>>
       ELSE /\ Failed
            /\ UNCHANGED sess
  /\ UNCHANGED <<arrays, events, datas, openContexts, manifest, clonedCache,
                 targetAttached, interceptVars, lifeVars>>

\* the finally block without clonedCache.clear()
DisableDoneKeepsImport ==
  /\ pc \in {"disableOk", "disableFail"}
  /\ IF targetAttached
       THEN /\ attached' = attached \ ChannelsOf("p2")
            /\ openPages' = openPages \ {"p2"}
       ELSE UNCHANGED <<attached, openPages>>
  /\ IF pc = "disableOk"
       THEN /\ pc' = "postCDP"
            /\ sess' = [sess EXCEPT !["clone"].networkCaptureEnabled = TRUE]
            /\ UNCHANGED <<errorSent, progress>>
       ELSE /\ Failed
            /\ UNCHANGED sess
  /\ UNCHANGED <<cacheHeap, arrays, events, datas, openContexts, manifest, clonedCache,
                 targetAttached, interceptVars, lifeVars>>

\* the rest of the finally block once Fetch.disable has settled (its rejection
\* is swallowed): clonedCache.clear(), then disposeTarget if targetAttached.
\* On success the handler goes on to ensureScrollAccumulator,
\* bindNavigationReset and enableNetworkCapture, which calls newCDPSession
DisableDone ==
  /\ pc \in {"disableOk", "disableFail"}
  /\ cacheHeap' = [cacheHeap EXCEPT ![clonedCache] = NCClear(@)]
  /\ IF targetAttached
       THEN /\ attached' = attached \ ChannelsOf("p2")
            /\ openPages' = openPages \ {"p2"}
       ELSE UNCHANGED <<attached, openPages>>
  /\ IF pc = "disableOk"
       THEN /\ pc' = "postCDP"
            /\ sess' = [sess EXCEPT !["clone"].networkCaptureEnabled = TRUE]
            /\ UNCHANGED <<errorSent, progress>>
       ELSE /\ Failed
            /\ UNCHANGED sess
  /\ UNCHANGED <<arrays, events, datas, openContexts, manifest, clonedCache,
                 targetAttached, interceptVars, lifeVars>>

\* enableNetworkCapture of the clone: newCDPSession settles; on success
\* Fetch.enable is sent on the new channel
PostCDPDone(ok) ==
  /\ pc = "postCDP"
  /\ ok => "p2" \in openPages
  /\ IF ok
       THEN /\ attached' = attached \cup {"n2"}
            /\ sess' = [sess EXCEPT !["clone"].networkCdp = "n2"]
            /\ pc' = "postFetch"
            /\ UNCHANGED <<errorSent, progress>>
       ELSE /\ Failed
            /\ UNCHANGED <<attached, sess>>
  /\ UNCHANGED <<dataVars, openContexts, openPages, manifest, clonedCache,
                 targetAttached, interceptVars, lifeVars>>

\* enableNetworkCapture of the clone: Fetch.enable settles; on success the
\* handler parks the clone with pendingSessions.add and sends cloneCreated
PostFetchDone(ok) ==
  /\ pc = "postFetch"
  /\ ok => "n2" \in attached
  /\ IF ok
       THEN /\ Add(clonedConnectionId, "clone")
            /\ pc' = "parked"
            /\ UNCHANGED <<errorSent, progress>>
       ELSE /\ Failed
            /\ UNCHANGED storeVars
  /\ UNCHANGED <<sess, dataVars, browserVars, manifest, clonedCache, targetAttached,
                 interceptVars, lifeVars>>

\* ---- the interception handler of setupCacheInterception ----

RequestKeys == CloneKeys \cup {"miss"}

\* Object.entries(cached.responseHeaders).map(([name, value]) => ({name, value}))
HeaderEntries(h) == {[name |-> n, value |-> h[n]] : n \in DOMAIN h}

\* cached.body.toString('base64')
Base64(body) == <<"base64", body>>

\* the parameters of Fetch.fulfillRequest built from a cached response
FulfillParams(cached) ==
  [responseCode |-> cached.status,
   responseHeaders |-> HeaderEntries(cached.responseHeaders),
   body |-> Base64(cached.body)]

\* the browser emits Fetch.requestPaused on "c2"; a registered handler looks the
\* key up and sends Fetch.fulfillRequest or Fetch.continueRequest. A request
\* records what cache.get returned (cached, empty on a miss), the parameters
\* of its fulfillRequest (served), its protocol calls and its outcome (result)
RequestPaused(key) ==
  /\ installed
  /\ "c2" \in attached
  /\ Len(reqs) < MaxReq
  /\ IF listener
       THEN IF MapHas(cacheHeap[clonedCache].cache, key)
              THEN LET cached == MapGet(cacheHeap[clonedCache].cache, key)
                   IN /\ reqs' = Append(reqs, [key |-> key, afterCleanup |-> cleanedUp,
                                               cached |-> <<cached>>,
                                               served |-> <<FulfillParams(cached)>>,
                                               calls |-> <<"Fetch.fulfillRequest">>,
                                               state |-> "fulfilling",
                                               result |-> "pending"])
                      /\ cdpCalls' = Append(cdpCalls, "Fetch.fulfillRequest")
              ELSE /\ reqs' = Append(reqs, [key |-> key, afterCleanup |-> cleanedUp,
                                            cached |-> <<>>, served |-> <<>>,
                                            calls |-> <<"Fetch.continueRequest">>,
                                            state |-> "done",
                                            result |-> "continued"])
                   /\ cdpCalls' = Append(cdpCalls, "Fetch.continueRequest")
       ELSE /\ reqs' = Append(reqs, [key |-> key, afterCleanup |-> cleanedUp,
                                     cached |-> <<>>, served |-> <<>>,
                                     calls |-> <<>>, state |-> "ignored",
                                     result |-> "none"])
            /\ UNCHANGED cdpCalls
  /\ UNCHANGED <<sess, dataVars, browserVars, pc, manifest, clonedCache, targetAttached,
                 listener, cleanedUp, installed, lifeVars, errorSent, progress>>

\* the handler without its catch block: a failed fulfillment is only logged
FulfillSettleNoFallback(i, ok) ==
  /\ i \in 1..Len(reqs)
  /\ reqs[i].state = "fulfilling"
  /\ reqs' = [reqs EXCEPT ![i].state = "done",
                          ![i].result = IF ok THEN "fulfilled" ELSE "failed"]
  /\ UNCHANGED cdpCalls
  /\ UNCHANGED <<sess, dataVars, browserVars, pc, manifest, clonedCache, targetAttached,
                 listener, cleanedUp, installed, lifeVars, errorSent, progress>>

\* Fetch.fulfillRequest settles; on rejection the handler sends
\* Fetch.continueRequest
FulfillSettle(i, ok) ==
  /\ i \in 1..Len(reqs)
  /\ reqs[i].state = "fulfilling"
  /\ IF ok
       THEN /\ reqs' = [reqs EXCEPT ![i].state = "done", ![i].result = "fulfilled"]
            /\ UNCHANGED cdpCalls
       ELSE /\ reqs' = [reqs EXCEPT ![i].state = "done",
                                    ![i].result = "continued",
                                    ![i].calls = Append(@, "Fetch.continueRequest")]
            /\ cdpCalls' = Append(cdpCalls, "Fetch.continueRequest")
  /\ UNCHANGED <<sess, dataVars, browserVars, pc, manifest, clonedCache, targetAttached,
                 listener, cleanedUp, installed, lifeVars, errorSent, progress>>

\* ---- disposeSession ----

\* disposeSession closing the context whoever owns it
ClosesContextAlways(s) == TRUE

\* disposeSession: if (session.ownsContext) session.context.close()
ClosesContext(s) == sess[s].ownsContext

\* disposeSession(connectionId, session): the channels are detached, the page
\* is closed, and the context is closed if the session owns it; closing a page
\* detaches its channels and closing a context closes its pages
DisposeSession(s) ==
  /\ disposed' = disposed \cup {s}
  /\ IF ClosesContext(s)
       THEN /\ openContexts' = openContexts \ {sess[s].context}
            /\ openPages' = openPages \ ({sess[s].page} \cup PagesOf(sess[s].context))
            /\ attached' = attached \
                 (ChannelsOf(sess[s].page) \cup
                  UNION {ChannelsOf(q) : q \in PagesOf(sess[s].context)})
            /\ ctxClosedBy' = ctxClosedBy \cup {s}
       ELSE /\ openPages' = openPages \ {sess[s].page}
            /\ attached' = attached \ ChannelsOf(sess[s].page)
            /\ UNCHANGED <<openContexts, ctxClosedBy>>
  /\ UNCHANGED <<sess, dataVars, pc, manifest, clonedCache, targetAttached,
                 interceptVars, errorSent, progress>>

\* the TTL timer of the pending store fires; its dispose callback is disposeSession
PendingExpire(t) ==
  /\ TimerFire(t)
  /\ IF timerInfo[t].id \in DOMAIN entries
       THEN DisposeSession(entries[timerInfo[t].id].session) /\ UNCHANGED cloneLive
       ELSE UNCHANGED cloneVars

\* websocket.open of a client presenting the clone's identifier
AttachClone ==
  /\ clonedConnectionId \in DOMAIN entries
  /\ Take(clonedConnectionId)
  /\ cloneLive' = TRUE
  /\ UNCHANGED <<sess, dataVars, browserVars, pc, manifest, clonedCache, targetAttached,
                 interceptVars, disposed, ctxClosedBy, errorSent, progress>>

\* websocket.close of the connection holding the clone
CloseClone ==
  /\ cloneLive
  /\ DisposeSession("clone")
  /\ cloneLive' = FALSE
  /\ UNCHANGED storeVars

\* websocket.close of the connection holding the source session
CloseSrc ==
  /\ "src" \notin disposed
  /\ DisposeSession("src")
  /\ UNCHANGED <<cloneLive, storeVars>>

CloneTick == Tick /\ UNCHANGED cloneVars


\* ------------------------------------------------------------------------
\* Connections: websocket.open and websocket.close of src/server.ts, with the
\* live map contexts and the pending store. The session created for a
\* connection w is named w; the parked clone is "clone".
\* ------------------------------------------------------------------------
VARIABLES
  contexts,        \* the live map: connectionId -> session
  wsConnectionId,  \* ws.connectionId of each socket, "undefined" until open sets it
  openPc,          \* open handler: "notOpened", "creating", "starting", "done",
                   \* "rejected" (session not found), "failed" (it threw)
  closePc,         \* close handler: "none", "disposing", "done"
  closeSess,       \* the session the close handler is disposing
  created,         \* the session created for or attached to each connection
  connDisposed     \* the sessions disposeSession has completed on

connVars == <<contexts, wsConnectionId, openPc, closePc, closeSess, created, connDisposed>>

Conns == {"w1", "w2"}

ConnInit ==
  /\ contexts = <<>>
  /\ wsConnectionId = [w \in Conns |-> "undefined"]
  /\ openPc = [w \in Conns |-> "notOpened"]
  /\ closePc = [w \in Conns |-> "none"]
  /\ closeSess = [w \in Conns |-> "none"]
  /\ created = [w \in Conns |-> "none"]
  /\ connDisposed = {}

\* the cloneSession handler parks the clone: pendingSessions.add
ParkClone ==
  /\ nextTok = 1
  /\ Add(clonedConnectionId, "clone")
  /\ UNCHANGED connVars

\* websocket.open assigning ws.connectionId before the pending session is looked up
OpenStartIdBeforeTake(w, requestedSessionId) ==
  /\ openPc[w] = "notOpened"
  /\ IF requestedSessionId # "none"
       THEN /\ Take(requestedSessionId)
            /\ wsConnectionId' = [wsConnectionId EXCEPT ![w] = requestedSessionId]
            /\ IF requestedSessionId \in DOMAIN entries
                 THEN /\ contexts' = MapSet(contexts, requestedSessionId,
                                            entries[requestedSessionId].session)
                      /\ created' = [created EXCEPT ![w] = entries[requestedSessionId].session]
                      /\ openPc' = [openPc EXCEPT ![w] = "starting"]
                 ELSE /\ openPc' = [openPc EXCEPT ![w] = "rejected"]
                      /\ UNCHANGED <<contexts, created>>
       ELSE /\ openPc' = [openPc EXCEPT ![w] = "creating"]
            /\ UNCHANGED <<wsConnectionId, contexts, created>>
            /\ UNCHANGED storeVars
  /\ UNCHANGED <<closePc, closeSess, connDisposed>>

\* websocket.open up to its first await. With a requested session id:
\* pendingSessions.take, then either the error and ws.close(), or
\* ws.connectionId and contexts.set followed by startScreencast
\* (enableNetworkCapture in between returns at once: capture was enabled before
\* the session was parked). Without one: createSessionForConnection is awaited
OpenStart(w, requestedSessionId) ==
  /\ openPc[w] = "notOpened"
  /\ IF requestedSessionId # "none"
       THEN /\ Take(requestedSessionId)
            /\ IF requestedSessionId \in DOMAIN entries
                 THEN /\ wsConnectionId' = [wsConnectionId EXCEPT ![w] = requestedSessionId]
                      /\ contexts' = MapSet(contexts, requestedSessionId,
                                            entries[requestedSessionId].session)
                      /\ created' = [created EXCEPT ![w] = entries[requestedSessionId].session]
                      /\ openPc' = [openPc EXCEPT ![w] = "starting"]
                 ELSE /\ openPc' = [openPc EXCEPT ![w] = "rejected"]
                      /\ UNCHANGED <<wsConnectionId, contexts, created>>
       ELSE /\ openPc' = [openPc EXCEPT ![w] = "creating"]
            /\ UNCHANGED <<wsConnectionId, contexts, created>>
            /\ UNCHANGED storeVars
  /\ UNCHANGED <<closePc, closeSess, connDisposed>>

\* websocket.open resuming after createSessionForConnection: ws.connectionId
\* is assigned, the session is registered with contexts.set, and
\* startScreencast is awaited
OpenCreated(w, ok) ==
  /\ openPc[w] = "creating"
  /\ IF ok
       THEN /\ wsConnectionId' = [wsConnectionId EXCEPT ![w] = w]
            /\ contexts' = MapSet(contexts, w, w)
            /\ created' = [created EXCEPT ![w] = w]
            /\ openPc' = [openPc EXCEPT ![w] = "starting"]
       ELSE /\ openPc' = [openPc EXCEPT ![w] = "failed"]
            /\ UNCHANGED <<wsConnectionId, contexts, created>>
  /\ UNCHANGED <<closePc, closeSess, connDisposed, storeVars>>

\* websocket.open resuming after startScreencast: the ready message
OpenStarted(w, ok) ==
  /\ openPc[w] = "starting"
  /\ openPc' = [openPc EXCEPT ![w] = IF ok THEN "done" ELSE "failed"]
  /\ UNCHANGED <<contexts, wsConnectionId, closePc, closeSess, created, connDisposed,
                 storeVars>>

\* websocket.close up to its await: contexts.get(ws.connectionId), then
\* disposeSession if a session is registered
CloseStart(w) ==
  /\ openPc[w] # "notOpened"
  /\ closePc[w] = "none"
  /\ IF wsConnectionId[w] \in DOMAIN contexts
       THEN /\ closePc' = [closePc EXCEPT ![w] = "disposing"]
            /\ closeSess' = [closeSess EXCEPT ![w] = contexts[wsConnectionId[w]]]
       ELSE /\ closePc' = [closePc EXCEPT ![w] = "done"]
            /\ UNCHANGED closeSess
  /\ UNCHANGED <<contexts, wsConnectionId, openPc, created, connDisposed, storeVars>>

\* websocket.close resuming after disposeSession: contexts.delete
CloseDisposed(w) ==
  /\ closePc[w] = "disposing"
  /\ connDisposed' = connDisposed \cup {closeSess[w]}
  /\ contexts' = IF wsConnectionId[w] \in DOMAIN contexts
                   THEN MapDelete(contexts, wsConnectionId[w]) ELSE contexts
  /\ closePc' = [closePc EXCEPT ![w] = "done"]
  /\ UNCHANGED <<wsConnectionId, openPc, closeSess, created, storeVars>>

\* the TTL timer of a parked clone fires: disposeSession through the store
ConnExpire(t) ==
  /\ TimerFire(t)
  /\ connDisposed' = IF timerInfo[t].id \in DOMAIN entries
                       THEN connDisposed \cup {entries[timerInfo[t].id].session}
                       ELSE connDisposed
  /\ UNCHANGED <<contexts, wsConnectionId, openPc, closePc, closeSess, created>>

ConnTick == Tick /\ UNCHANGED connVars


\* ------------------------------------------------------------------------
\* Network capture: the Fetch.requestPaused listener that enableNetworkCapture
\* of src/server.ts registers on the network channel of a live session. Each
\* paused response is a record of capReqs: what the event carried (status,
\* headersAvailable, key, response), the listener's position pc ("continuing"
\* or "body" while a protocol call is awaited, "done" at its end), the
\* protocol calls it has sent, and what networkCache.set returned (stored).
\* ------------------------------------------------------------------------
VARIABLES
  capReqs,       \* the paused responses the listener was called with
  capCache,      \* session.networkCache
  capListener    \* the listener is registered (until disposeSession)

capVars == <<capReqs, capCache, capListener>>

\* responseStatusCode of the event
CapStatuses == {200, 302}
CapResponses == {[size |-> 1, resourceType |-> "image", body |-> "x"],
                 [size |-> 3, resourceType |-> "image", body |-> "x"]}

CapInit ==
  /\ capReqs = <<>>
  /\ capCache = EmptyCache
  /\ capListener = TRUE

isRedirect(responseStatusCode) ==
  responseStatusCode >= 300 /\ responseStatusCode < 400

\* the listener is called: a redirect or a response without headers is
\* continued at once, otherwise Fetch.getResponseBody is sent
CapPaused(status, headersAvailable, key, response) ==
  /\ capListener
  /\ Len(capReqs) < MaxCapReq
  /\ capReqs' = Append(capReqs,
        [status |-> status, headersAvailable |-> headersAvailable, key |-> key,
         response |-> response, stored |-> "none",
         pc |-> IF isRedirect(status) \/ ~headersAvailable THEN "continuing" ELSE "body",
         calls |-> IF isRedirect(status) \/ ~headersAvailable
                     THEN <<"Fetch.continueRequest">>
                     ELSE <<"Fetch.getResponseBody">>])
  /\ UNCHANGED <<capCache, capListener>>

\* the listener whose catch block returns instead of falling through
CapBodySettleReturnsOnError(i, ok) ==
  /\ i \in 1..Len(capReqs)
  /\ capReqs[i].pc = "body"
  /\ IF ok
       THEN LET r == NCSet(capCache, capReqs[i].key, capReqs[i].response)
            IN /\ capCache' = r.nc
               /\ capReqs' = [capReqs EXCEPT
                     ![i].stored = IF r.ok THEN "admitted" ELSE "rejected",
                     ![i].calls = Append(@, "Fetch.continueRequest"),
                     ![i].pc = "continuing"]
       ELSE /\ capReqs' = [capReqs EXCEPT ![i].stored = "bodyFailed", ![i].pc = "done"]
            /\ UNCHANGED capCache
  /\ UNCHANGED capListener

\* Fetch.getResponseBody settles: on success the response is offered to
\* networkCache.set, on rejection the catch block logs; either way
\* Fetch.continueRequest is sent next
CapBodySettle(i, ok) ==
  /\ i \in 1..Len(capReqs)
  /\ capReqs[i].pc = "body"
  /\ IF ok
       THEN LET r == NCSet(capCache, capReqs[i].key, capReqs[i].response)
            IN /\ capCache' = r.nc
               /\ capReqs' = [capReqs EXCEPT
                     ![i].stored = IF r.ok THEN "admitted" ELSE "rejected",
                     ![i].calls = Append(@, "Fetch.continueRequest"),
                     ![i].pc = "continuing"]
       ELSE /\ capReqs' = [capReqs EXCEPT
                     ![i].stored = "bodyFailed",
                     ![i].calls = Append(@, "Fetch.continueRequest"),
                     ![i].pc = "continuing"]
            /\ UNCHANGED capCache
  /\ UNCHANGED capListener

\* Fetch.continueRequest settles; its rejection is swallowed
CapContinueSettle(i, ok) ==
  /\ i \in 1..Len(capReqs)
  /\ capReqs[i].pc = "continuing"
  /\ capReqs' = [capReqs EXCEPT ![i].pc = "done"]
  /\ UNCHANGED <<capCache, capListener>>

\* disposeSession removes the listener from the network channel
CapDispose ==
  /\ capListener
  /\ capListener' = FALSE
  /\ UNCHANGED <<capReqs, capCache>>


\* ------------------------------------------------------------------------
\* Request fingerprint: NetworkCache.getCacheKey, called by the capture
\* listener, and the getCacheKey function of the clone orchestrator, called by
\* the interception handler. A request is [method, url, headers, postData];
\* headers maps each header name to its value, "absent" when the request has no
\* such header; postData is "absent" when the request has no body. A key is the
\* sequence of the parts the code joins with ':' and '|'.
\* ------------------------------------------------------------------------
VARIABLES
  fpA, fpB,      \* two requests
  fpKeys         \* the keys computed for them: [capA, capB, repA, repB], each
                 \* <<>> until computed, then <<key>>

fpVars == <<fpA, fpB, fpKeys>>

criticalHeaders == <<"content-type", "accept", "authorization", "cookie">>

FpHeaderNames == {"content-type", "accept", "authorization", "cookie", "x-trace"}

\* the header maps of the requests: content-type and x-trace present or not,
\* cookie absent, empty or present
FpHeaders ==
  {[n \in FpHeaderNames |-> IF n = "content-type" THEN ct
                            ELSE IF n = "cookie" THEN ck
                            ELSE IF n = "x-trace" THEN xt
                            ELSE "absent"] :
      ct \in {"absent", "json"}, ck \in {"absent", "", "sid"}, xt \in {"absent", "1"}}

FpRequests ==
  [method : {"GET", "POST"}, url : {"u1", "u2"}, headers : FpHeaders,
   postData : {"absent", "", "p", "q"}]

\* v || '' on a looked-up header value or on postData: absent and '' are falsy
Falsy(v) == v \in {"absent", ""}

\* request.headers[h] || request.headers[h.toLowerCase()] || ''
HeaderValue(request, h) == IF Falsy(request.headers[h]) THEN "" ELSE request.headers[h]

\* createHash('sha256').update(postData).digest('hex').substring(0, 16); the
\* digests of the bodies used here are distinct
PostDataHash(postData) == <<"sha256/16", postData>>

\* NetworkCache.getCacheKey(request)
NCGetCacheKey(request) ==
  <<request.method, request.url,
    [i \in 1..Len(criticalHeaders) |->
        <<criticalHeaders[i], HeaderValue(request, criticalHeaders[i])>>]>>
  \o (IF Falsy(request.postData) THEN <<>> ELSE <<PostDataHash(request.postData)>>)

\* getCacheKey without the POST data hash
getCacheKeyNoBody(request) ==
  <<request.method, request.url,
    [i \in 1..Len(criticalHeaders) |->
        <<criticalHeaders[i], HeaderValue(request, criticalHeaders[i])>>]>>

\* getCacheKey(request) of the clone orchestrator
getCacheKey(request) ==
  <<request.method, request.url,
    [i \in 1..Len(criticalHeaders) |->
        <<criticalHeaders[i], HeaderValue(request, criticalHeaders[i])>>]>>
  \o (IF Falsy(request.postData) THEN <<>> ELSE <<PostDataHash(request.postData)>>)

FpInit ==
  /\ fpA \in FpRequests
  /\ fpB \in FpRequests
  /\ fpKeys = [capA |-> <<>>, capB |-> <<>>, repA |-> <<>>, repB |-> <<>>]

\* the requests where no fingerprint is computed
FpIdle ==
  /\ fpA = [method |-> "GET", url |-> "u1", headers |-> [n \in FpHeaderNames |-> "absent"],
            postData |-> "absent"]
  /\ fpB = fpA
  /\ fpKeys = [capA |-> <<>>, capB |-> <<>>, repA |-> <<>>, repB |-> <<>>]

\* the capture listener computes the keys of both requests
FpCapture ==
  /\ fpKeys.capA = <<>>
  /\ fpKeys' = [fpKeys EXCEPT !.capA = <<NCGetCacheKey(fpA)>>,
                              !.capB = <<NCGetCacheKey(fpB)>>]
  /\ UNCHANGED <<fpA, fpB>>

\* the interception handler of a clone computes the keys of both requests
FpReplay ==
  /\ fpKeys.repA = <<>>
  /\ fpKeys' = [fpKeys EXCEPT !.repA = <<getCacheKey(fpA)>>,
                              !.repB = <<getCacheKey(fpB)>>]
  /\ UNCHANGED <<fpA, fpB>>


\* ------------------------------------------------------------------------
\* The screencast of one live session and its control messages (src/server.ts)
\* ------------------------------------------------------------------------
VARIABLES
  scCalls,                    \* the invocations of startScreencast, in call order:
                              \* [pc, tier, origin], pc the await it is suspended at
  frameListeners,             \* the invocations whose frame and visibility handlers
                              \* are attached to session.cdp
  screencastListener,         \* session.screencastListener: the invocation that
                              \* created it, 0 when undefined
  screencastStartupTimeout,   \* session.screencastStartupTimeout: the invocation
                              \* that armed the timer, 0 when none is armed
  screencastRestartAttempts,  \* session.screencastRestartAttempts
  currentQualityTier,         \* session.currentQualityTier
  stream,                     \* the tier of the running capture stream, or "down"
  streamBy,                   \* the invocation whose Page.startScreencast started it
  framedStart,                \* the invocation whose stream delivered the last frame,
                              \* 0 before any frame
  startedOverStream,          \* a Page.startScreencast took effect on a running stream
  restartsSince,              \* watchdog restarts since the counter was last zeroed
  teardown,                   \* disposeSession: "none", "cleaned", "done"
  lastReply                   \* the control message handled last: whether its handling
                              \* failed and what the handler sent for it

castVars == <<scCalls, frameListeners, screencastListener, screencastStartupTimeout,
              screencastRestartAttempts, currentQualityTier, stream, streamBy, framedStart,
              startedOverStream, restartsSince, teardown, lastReply>>

MAX_SCREENCAST_RESTARTS == 3

Tiers == {"primary", "secondary"}

CastInit ==
  /\ scCalls = <<>>
  /\ frameListeners = {}
  /\ screencastListener = 0
  /\ screencastStartupTimeout = 0
  /\ screencastRestartAttempts = 0
  /\ currentQualityTier = "primary"
  /\ stream = "down"
  /\ streamBy = 0
  /\ framedStart = 0
  /\ startedOverStream = FALSE
  /\ restartsSince = 0
  /\ teardown = "none"
  /\ lastReply = [msg |-> "none", failed |-> FALSE, reply |-> "none"]

\* the invocations of startScreencast suspended at an await
InProgress == {i \in 1..Len(scCalls) : scCalls[i].pc \notin {"done", "rejected"}}

\* the startup watchdog gives up
GivesUpEarly(attempts) == attempts >= MAX_SCREENCAST_RESTARTS

GivesUp(attempts) == attempts > MAX_SCREENCAST_RESTARTS

\* startScreencast up to its first await: the handlers held in the session
\* fields are removed, the startup timer is cleared, the restart counter is
\* zeroed unless preserveRestartCounter, and ensurePageActive is awaited.
\* attempts is session.screencastRestartAttempts at the call
startScreencast(tierName, preserveRestartCounter, origin, attempts) ==
  /\ Len(scCalls) < MaxCalls
  /\ Cardinality(InProgress) < MaxOverlap
  /\ frameListeners' = frameListeners \ {screencastListener}
  /\ screencastStartupTimeout' = 0
  /\ screencastRestartAttempts' = IF preserveRestartCounter THEN attempts ELSE 0
  /\ restartsSince' = IF preserveRestartCounter THEN restartsSince + 1 ELSE 0
  /\ scCalls' = Append(scCalls, [pc |-> "active", tier |-> tierName, origin |-> origin])
  /\ UNCHANGED <<screencastListener, currentQualityTier, stream, streamBy, framedStart,
                 startedOverStream, teardown>>

\* websocket.open, after contexts.set: startScreencast with the session's tier
OpenScreencast ==
  /\ scCalls = <<>>
  /\ startScreencast(currentQualityTier, FALSE, "open", screencastRestartAttempts)
  /\ UNCHANGED lastReply

\* case 'setQualityTier': startScreencast is awaited outside any try
SetQualityTier(tier) ==
  /\ scCalls # <<>>
  /\ Cardinality({i \in 1..Len(scCalls) : scCalls[i].origin = "message"}) < MaxSwitch
  /\ teardown = "none"
  /\ startScreencast(tier, FALSE, "message", screencastRestartAttempts)
  /\ UNCHANGED lastReply

\* startScreencast resuming after ensurePageActive: the new handlers are stored
\* in the session, the tier is recorded, the handlers are attached, and
\* Page.stopScreencast is awaited
ActiveSettle(i) ==
  /\ scCalls[i].pc = "active"
  /\ screencastListener' = i
  /\ currentQualityTier' = scCalls[i].tier
  /\ frameListeners' = frameListeners \cup {i}
  /\ scCalls' = [scCalls EXCEPT ![i].pc = "stopping"]
  /\ UNCHANGED <<screencastStartupTimeout, screencastRestartAttempts, stream, streamBy,
                 framedStart, startedOverStream, restartsSince, teardown, lastReply>>

\* Page.stopScreencast settles, its failure swallowed: Page.startScreencast is
\* awaited
StopSettle(i) ==
  /\ scCalls[i].pc = "stopping"
  /\ stream' = "down"
  /\ scCalls' = [scCalls EXCEPT ![i].pc = "starting"]
  /\ UNCHANGED <<frameListeners, screencastListener, screencastStartupTimeout,
                 screencastRestartAttempts, currentQualityTier, streamBy, framedStart,
                 startedOverStream, restartsSince, teardown, lastReply>>

\* Page.startScreencast settles. Resolved: the stream runs with the tier's
\* parameters and forceInitialFrame is awaited. Rejected (always so on a
\* detached channel): startScreencast rejects, and from 'setQualityTier' the
\* message handler rejects with it, sending nothing
StartSettle(i, ok) ==
  /\ scCalls[i].pc = "starting"
  /\ teardown = "done" => ~ok
  /\ IF ok
       THEN /\ stream' = scCalls[i].tier
            /\ streamBy' = i
            /\ startedOverStream' = (startedOverStream \/ stream # "down")
            /\ scCalls' = [scCalls EXCEPT ![i].pc = "forcing"]
            /\ UNCHANGED lastReply
       ELSE /\ scCalls' = [scCalls EXCEPT ![i].pc = "rejected"]
            /\ lastReply' = IF scCalls[i].origin = "message"
                              THEN [msg |-> "setQualityTier", failed |-> TRUE,
                                    reply |-> "none"]
                              ELSE lastReply
            /\ UNCHANGED <<stream, streamBy, startedOverStream>>
  /\ UNCHANGED <<frameListeners, screencastListener, screencastStartupTimeout,
                 screencastRestartAttempts, currentQualityTier, framedStart, restartsSince,
                 teardown>>

\* forceInitialFrame settles, its failures swallowed: scheduleStartupWatchdog
\* clears the timer and arms a new one; startScreencast returns, and
\* 'setQualityTier' sends qualityTierChanged
ForceSettle(i) ==
  /\ scCalls[i].pc = "forcing"
  /\ screencastStartupTimeout' = i
  /\ scCalls' = [scCalls EXCEPT ![i].pc = "done"]
  /\ lastReply' = IF scCalls[i].origin = "message"
                    THEN [msg |-> "setQualityTier", failed |-> FALSE,
                          reply |-> "qualityTierChanged"]
                    ELSE lastReply
  /\ UNCHANGED <<frameListeners, screencastListener, screencastRestartAttempts,
                 currentQualityTier, stream, streamBy, framedStart, startedOverStream,
                 restartsSince, teardown>>

\* a Page.screencastFrame event of the running stream: every attached frame
\* handler clears the startup timer and zeroes the restart counter
FrameArrives ==
  /\ stream # "down"
  /\ frameListeners # {}
  /\ screencastStartupTimeout' = 0
  /\ screencastRestartAttempts' = 0
  /\ restartsSince' = 0
  /\ framedStart' = streamBy
  /\ UNCHANGED <<scCalls, frameListeners, screencastListener, currentQualityTier, stream,
                 streamBy, startedOverStream, teardown, lastReply>>

\* the startup timer fires: the counter is incremented; past the ceiling the
\* timer is cleared and nothing is started, otherwise startScreencast is
\* called with the tier of the start that armed the timer
WatchdogFire ==
  /\ screencastStartupTimeout # 0
  /\ LET attempts == screencastRestartAttempts + 1 IN
       IF GivesUp(attempts)
         THEN /\ screencastRestartAttempts' = attempts
              /\ screencastStartupTimeout' = 0
              /\ UNCHANGED <<scCalls, frameListeners, screencastListener,
                             currentQualityTier, stream, streamBy, framedStart,
                             startedOverStream, restartsSince, teardown>>
         ELSE startScreencast(scCalls[screencastStartupTimeout].tier, TRUE, "watchdog",
                              attempts)
  /\ UNCHANGED lastReply

\* cases 'navigate' and 'captureSnapshot': the work runs inside try/catch, a
\* failure is answered with an error message
Navigate(ok) ==
  /\ scCalls # <<>>
  /\ teardown = "none"
  /\ lastReply' = [msg |-> "navigate", failed |-> ~ok,
                   reply |-> IF ok THEN "status" ELSE "error"]
  /\ UNCHANGED <<scCalls, frameListeners, screencastListener, screencastStartupTimeout,
                 screencastRestartAttempts, currentQualityTier, stream, streamBy, framedStart,
                 startedOverStream, restartsSince, teardown>>

CaptureSnapshot(ok) ==
  /\ scCalls # <<>>
  /\ teardown = "none"
  /\ lastReply' = [msg |-> "captureSnapshot", failed |-> ~ok,
                   reply |-> IF ok THEN "snapshotCaptured" ELSE "error"]
  /\ UNCHANGED <<scCalls, frameListeners, screencastListener, screencastStartupTimeout,
                 screencastRestartAttempts, currentQualityTier, stream, streamBy, framedStart,
                 startedOverStream, restartsSince, teardown>>

\* disposeSession up to the await in cleanupScreencast: the handlers held in
\* the session fields are removed and the fields cleared, the startup timer is
\* cleared, the restart counter zeroed, and Page.stopScreencast is awaited
cleanupScreencast ==
  /\ scCalls # <<>>
  /\ teardown = "none"
  /\ frameListeners' = frameListeners \ {screencastListener}
  /\ screencastListener' = 0
  /\ screencastStartupTimeout' = 0
  /\ screencastRestartAttempts' = 0
  /\ restartsSince' = 0
  /\ teardown' = "cleaned"
  /\ UNCHANGED <<scCalls, currentQualityTier, stream, streamBy, framedStart,
                 startedOverStream, lastReply>>

\* disposeSession resuming: the stream is stopped, the channels are detached
\* and the page is closed
disposeSession ==
  /\ teardown = "cleaned"
  /\ stream' = "down"
  /\ teardown' = "done"
  /\ UNCHANGED <<scCalls, frameListeners, screencastListener, screencastStartupTimeout,
                 screencastRestartAttempts, currentQualityTier, streamBy, framedStart,
                 startedOverStream, restartsSince, lastReply>>


\* ------------------------------------------------------------------------
\* Event replay into a clone (src/src/clone/NetworkCache.ts, replayEvents)
\* ------------------------------------------------------------------------
VARIABLES
  rpLog,         \* the events passed to replayEvents: [id, type, timestamp],
                 \* id the position in the log
  rpSerialized,  \* serializedEvents
  rpIdx,         \* the position of the for loop in serializedEvents
  rpPc,          \* "idle", "evalStart", "loop", "flushing", "awaitEvent",
                 \* "finalFlush", "evalEnd", "done", "failed"
  rpPending,     \* pendingDispatches: positions in serializedEvents
  rpBatch,       \* the batch flushDispatches is awaiting
  rpState,       \* per position: "none", "issued", "ok", "failed" (the outcome
                 \* of its cdp.send)
  rpOrder        \* the positions in the order their dispatch was issued

replayVars == <<rpLog, rpSerialized, rpIdx, rpPc, rpPending, rpBatch, rpState, rpOrder>>

BATCH_SIZE == 128

ReplayTypes == {"mouseMoved", "mouseWheel", "keyDown"}
ReplayStamps == 1..MaxStamp

ReplayLogs ==
  UNION {[1..n -> ReplayTypes \X ReplayStamps] : n \in 0..MaxReplay}

\* no replay: the events of a clone that is not replaying
ReplayIdle ==
  /\ rpLog = <<>>
  /\ rpSerialized = <<>>
  /\ rpIdx = 1
  /\ rpPc = "idle"
  /\ rpPending = {}
  /\ rpBatch = {}
  /\ rpState = <<>>
  /\ rpOrder = <<>>

\* replayEvents is about to be called with some event log
ReplayInit ==
  /\ \E l \in ReplayLogs :
        rpLog = [i \in 1..Len(l) |-> [id |-> i, type |-> l[i][1], timestamp |-> l[i][2]]]
  /\ rpSerialized = <<>>
  /\ rpIdx = 1
  /\ rpPc = "idle"
  /\ rpPending = {}
  /\ rpBatch = {}
  /\ rpState = <<>>
  /\ rpOrder = <<>>

isBatchable(type) == type \in {"mouseMoved", "mouseWheel"}

\* [...events] without the sort
SortKeepsLogOrder(evs) == evs

\* [...events].sort((a, b) => a.timestamp - b.timestamp): a stable sort
RECURSIVE SortByTimestamp(_)
SortByTimestamp(evs) ==
  IF evs = <<>> THEN <<>>
  ELSE LET sorted == SortByTimestamp(SubSeq(evs, 1, Len(evs) - 1))
           e == evs[Len(evs)]
           k == Cardinality({i \in 1..Len(sorted) : sorted[i].timestamp <= e.timestamp})
       IN SubSeq(sorted, 1, k) \o <<e>> \o SubSeq(sorted, k + 1, Len(sorted))

\* replayEvents up to its first await: nothing to do for an empty log,
\* otherwise the page.evaluate that installs the skip-animation style
ReplayStart ==
  /\ rpPc = "idle"
  /\ rpPc' = IF rpLog = <<>> THEN "done" ELSE "evalStart"
  /\ UNCHANGED <<rpLog, rpSerialized, rpIdx, rpPending, rpBatch, rpState, rpOrder>>

\* page.evaluate settles: rejected, replayEvents rejects; resolved, the events
\* are sorted and copied and the loop begins
EvalStartDone(ok) ==
  /\ rpPc = "evalStart"
  /\ IF ok
       THEN /\ rpSerialized' = SortByTimestamp(rpLog)
            /\ rpState' = [i \in 1..Len(rpLog) |-> "none"]
            /\ rpPc' = "loop"
       ELSE /\ rpPc' = "failed"
            /\ UNCHANGED <<rpSerialized, rpState>>
  /\ UNCHANGED <<rpLog, rpIdx, rpPending, rpBatch, rpOrder>>

\* replayEvent(target, event) up to its await: cdp.send is issued
Issue(i) ==
  /\ rpState' = [rpState EXCEPT ![i] = "issued"]
  /\ rpOrder' = Append(rpOrder, i)

\* one iteration of the for loop. A mouse-move or wheel event is dispatched
\* without waiting and pushed on pendingDispatches (flushed at BATCH_SIZE);
\* any other event first flushes the pending dispatches and is then
\* dispatched and awaited. After the last event the pending ones are flushed
LoopStep ==
  /\ rpPc = "loop"
  /\ IF rpIdx > Len(rpSerialized)
       THEN /\ rpPc' = IF rpPending = {} THEN "evalEnd" ELSE "finalFlush"
            /\ rpBatch' = rpPending
            /\ rpPending' = {}
            /\ UNCHANGED <<rpIdx, rpState, rpOrder>>
       ELSE IF isBatchable(rpSerialized[rpIdx].type)
              THEN /\ Issue(rpIdx)
                   /\ IF Cardinality(rpPending) + 1 >= BATCH_SIZE
                        THEN /\ rpBatch' = rpPending \cup {rpIdx}
                             /\ rpPending' = {}
                             /\ rpPc' = "flushing"
                             /\ UNCHANGED rpIdx
                        ELSE /\ rpPending' = rpPending \cup {rpIdx}
                             /\ rpIdx' = rpIdx + 1
                             /\ UNCHANGED <<rpBatch, rpPc>>
              ELSE IF rpPending = {}
                     THEN /\ Issue(rpIdx)
                          /\ rpPc' = "awaitEvent"
                          /\ UNCHANGED <<rpIdx, rpPending, rpBatch>>
                     ELSE /\ rpBatch' = rpPending
                          /\ rpPending' = {}
                          /\ rpPc' = "flushing"
                          /\ UNCHANGED <<rpIdx, rpState, rpOrder>>
  /\ UNCHANGED <<rpLog, rpSerialized>>

\* Promise.allSettled(batch) resolves once every dispatch of the batch has
\* settled: a batch flushed for a full array continues with the next event,
\* one flushed before another event dispatches that event and awaits it, the
\* final one goes on to remove the style
FlushDone ==
  /\ rpPc \in {"flushing", "finalFlush"}
  /\ \A i \in rpBatch : rpState[i] \in {"ok", "failed"}
  /\ rpBatch' = {}
  /\ IF rpPc = "finalFlush"
       THEN /\ rpPc' = "evalEnd"
            /\ UNCHANGED <<rpIdx, rpState, rpOrder>>
       ELSE IF isBatchable(rpSerialized[rpIdx].type)
              THEN /\ rpPc' = "loop"
                   /\ rpIdx' = rpIdx + 1
                   /\ UNCHANGED <<rpState, rpOrder>>
              ELSE /\ Issue(rpIdx)
                   /\ rpPc' = "awaitEvent"
                   /\ UNCHANGED rpIdx
  /\ UNCHANGED <<rpLog, rpSerialized, rpPending>>

\* the outcome of a failed cdp.send escaping replayEvent
SettleRethrows(i, ok) ==
  /\ rpState[i] = "issued"
  /\ rpState' = [rpState EXCEPT ![i] = IF ok THEN "ok" ELSE "failed"]
  /\ IF rpPc = "awaitEvent" /\ i = rpIdx
       THEN /\ rpPc' = IF ok THEN "loop" ELSE "failed"
            /\ rpIdx' = rpIdx + 1
       ELSE UNCHANGED <<rpPc, rpIdx>>
  /\ UNCHANGED <<rpLog, rpSerialized, rpPending, rpBatch, rpOrder>>

\* a cdp.send of replayEvent settles; its rejection is caught inside
\* replayEvent. The awaited dispatch of a non-batchable event lets the loop go
\* on to the next event
DispatchSettle(i, ok) ==
  /\ rpState[i] = "issued"
  /\ rpState' = [rpState EXCEPT ![i] = IF ok THEN "ok" ELSE "failed"]
  /\ IF rpPc = "awaitEvent" /\ i = rpIdx
       THEN /\ rpPc' = "loop"
            /\ rpIdx' = rpIdx + 1
       ELSE UNCHANGED <<rpPc, rpIdx>>
  /\ UNCHANGED <<rpLog, rpSerialized, rpPending, rpBatch, rpOrder>>

\* the page.evaluate that removes the style settles
EvalEndDone(ok) ==
  /\ rpPc = "evalEnd"
  /\ rpPc' = IF ok THEN "done" ELSE "failed"
  /\ UNCHANGED <<rpLog, rpSerialized, rpIdx, rpPending, rpBatch, rpState, rpOrder>>


\* ------------------------------------------------------------------------
\* The teardown steps of one session (src/server.ts, disposeSession)
\* ------------------------------------------------------------------------
VARIABLES
  dsSess,  \* the session as disposeSession receives it: whether it has a
           \* navigationListener, a networkCdp, and ownsContext
  dsPc,    \* the await disposeSession is suspended at, "idle" before the call,
           \* "returned" or "rejected" after it
  dsLog    \* the steps attempted so far, in order: [step, ok]

disposeVars == <<dsSess, dsPc, dsLog>>

DisposeShapes ==
  [navigationListener : BOOLEAN, networkCdp : BOOLEAN, ownsContext : BOOLEAN]

\* a live session created by createSessionForConnection, not being disposed
DisposeIdle ==
  /\ dsSess = [navigationListener |-> TRUE, networkCdp |-> TRUE, ownsContext |-> TRUE]
  /\ dsPc = "idle"
  /\ dsLog = <<>>

\* disposeSession is about to be called on some session
DisposeInit ==
  /\ dsSess \in DisposeShapes
  /\ dsPc = "idle"
  /\ dsLog = <<>>

\* disposeSession up to the await in cleanupScreencast: Page.stopScreencast
DisposeCall ==
  /\ dsPc = "idle"
  /\ dsPc' = "stopScreencast"
  /\ UNCHANGED <<dsSess, dsLog>>

\* Page.stopScreencast settles, a failure swallowed: the navigation listener,
\* if any, is taken off the page; with a networkCdp its listener is removed
\* and Fetch.disable is awaited, otherwise cdp.detach is
DisposeStopSettle(ok) ==
  /\ dsPc = "stopScreencast"
  /\ dsLog' = dsLog \o <<[step |-> "stopScreencast", ok |-> ok]>>
                    \o (IF dsSess.navigationListener
                          THEN <<[step |-> "navigationOff", ok |-> TRUE]>> ELSE <<>>)
  /\ dsPc' = IF dsSess.networkCdp THEN "fetchDisable" ELSE "cdpDetach"
  /\ UNCHANGED dsSess

\* Fetch.disable settles, a failure swallowed: networkCdp.detach is awaited
DisposeFetchSettle(ok) ==
  /\ dsPc = "fetchDisable"
  /\ dsLog' = Append(dsLog, [step |-> "fetchDisable", ok |-> ok])
  /\ dsPc' = "networkDetach"
  /\ UNCHANGED dsSess

\* networkCdp.detach settles, a failure logged: cdp.detach is awaited
DisposeNetworkDetachSettle(ok) ==
  /\ dsPc = "networkDetach"
  /\ dsLog' = Append(dsLog, [step |-> "networkDetach", ok |-> ok])
  /\ dsPc' = "cdpDetach"
  /\ UNCHANGED dsSess

\* cdp.detach settles, a failure logged: page.close is awaited
DisposeCdpDetachSettle(ok) ==
  /\ dsPc = "cdpDetach"
  /\ dsLog' = Append(dsLog, [step |-> "cdpDetach", ok |-> ok])
  /\ dsPc' = "pageClose"
  /\ UNCHANGED dsSess

\* a failure of page.close escaping disposeSession
DisposePageCloseThrows(ok) ==
  /\ dsPc = "pageClose"
  /\ dsLog' = Append(dsLog, [step |-> "pageClose", ok |-> ok])
  /\ dsPc' = IF ~ok THEN "rejected"
             ELSE IF dsSess.ownsContext THEN "contextClose" ELSE "returned"
  /\ UNCHANGED dsSess

\* page.close settles, a failure logged: context.close is awaited if the
\* session owns its context, otherwise disposeSession returns
DisposePageCloseSettle(ok) ==
  /\ dsPc = "pageClose"
  /\ dsLog' = Append(dsLog, [step |-> "pageClose", ok |-> ok])
  /\ dsPc' = IF dsSess.ownsContext THEN "contextClose" ELSE "returned"
  /\ UNCHANGED dsSess

\* context.close settles, a failure logged: disposeSession returns
DisposeContextCloseSettle(ok) ==
  /\ dsPc = "contextClose"
  /\ dsLog' = Append(dsLog, [step |-> "contextClose", ok |-> ok])
  /\ dsPc' = "returned"
  /\ UNCHANGED dsSess


\* ------------------------------------------------------------------------
\* The multi-session message handler (src/message-handlers.ts) over the
\* session registry of src/session-manager.ts. A session is
\* [connectionId, currentTier, url, inputs]: its owner, its quality tier, the
\* url of its page and the number of input events dispatched to its page.
\* Session ids are drawn in order (crypto.randomUUID never repeats).
\* ------------------------------------------------------------------------
VARIABLES
  msSessions,      \* sessions: sessionId -> session
  msConnSessions,  \* connectionSessions: connectionId -> set of sessionIds
  msContexts,      \* the sessions whose browser context is open
  msNextId,        \* the next session id createSession draws
  msCreating,      \* createSession calls suspended before sessions.set:
                   \* sessionId -> [connectionId, tier]
  msClosing,       \* closeSession calls suspended at cdp.detach / context.close:
                   \* pairs <<connectionId of the message, sessionId>>
  msReply          \* the last message the handler sent: [to, type]

msVars == <<msSessions, msConnSessions, msContexts, msNextId, msCreating, msClosing, msReply>>

MsConns == {"k1", "k2"}
MsIds == 1..MaxSessions
MsTierNames == {"primary", "background", "bogus"}

\* QUALITY_TIERS[tier] is defined
KnownTier(tier) == tier \in {"background", "secondary", "primary"}

\* both connections are open: initializeConnection has run for each
MsInit ==
  /\ msSessions = <<>>
  /\ msConnSessions = [c \in MsConns |-> {}]
  /\ msContexts = {}
  /\ msNextId = 1
  /\ msCreating = <<>>
  /\ msClosing = {}
  /\ msReply = [to |-> "none", type |-> "none"]

\* session && session.connectionId === connectionId
ValidSession(sessionId, connectionId) ==
  sessionId \in DOMAIN msSessions /\ msSessions[sessionId].connectionId = connectionId

\* the guard of the closeSession case: sessions.get(sessionId) is defined
CloseGuard(sessionId, connectionId) == sessionId \in DOMAIN msSessions

\* case 'createSession' up to the awaits of createSession: the id is drawn and
\* the context created
MsCreateStart(connectionId, tier) ==
  /\ msNextId <= MaxSessions
  /\ msCreating' = MapSet(msCreating, msNextId, [connectionId |-> connectionId, tier |-> tier])
  /\ msContexts' = msContexts \cup {msNextId}
  /\ msNextId' = msNextId + 1
  /\ UNCHANGED <<msSessions, msConnSessions, msClosing, msReply>>

\* createSession resumes: sessions.set, connectionSessions.get(..)?.add and
\* the sessionCreated reply; a rejected await reaches the catch of handleMessage
MsCreateDone(sessionId, ok) ==
  /\ sessionId \in DOMAIN msCreating
  /\ LET c == msCreating[sessionId].connectionId IN
       IF ok
         THEN /\ msSessions' = MapSet(msSessions, sessionId,
                    [connectionId |-> c, currentTier |-> msCreating[sessionId].tier,
                     url |-> "about:blank", inputs |-> 0])
              /\ msConnSessions' = [msConnSessions EXCEPT ![c] = @ \cup {sessionId}]
              /\ msReply' = [to |-> c, type |-> "sessionCreated"]
         ELSE /\ msReply' = [to |-> c, type |-> "error"]
              /\ UNCHANGED <<msSessions, msConnSessions>>
  /\ msCreating' = MapDelete(msCreating, sessionId)
  /\ UNCHANGED <<msContexts, msNextId, msClosing>>

\* case 'navigate': page.goto and the navigationComplete reply, or the error
MsNavigate(connectionId, sessionId, ok) ==
  /\ IF ValidSession(sessionId, connectionId)
       THEN IF ok
              THEN /\ msSessions' = [msSessions EXCEPT ![sessionId].url = "u1"]
                   /\ msReply' = [to |-> connectionId, type |-> "navigationComplete"]
              ELSE /\ msReply' = [to |-> connectionId, type |-> "error"]
                   /\ UNCHANGED msSessions
       ELSE /\ msReply' = [to |-> connectionId, type |-> "error"]
            /\ UNCHANGED msSessions
  /\ UNCHANGED <<msConnSessions, msContexts, msNextId, msCreating, msClosing>>

\* the input cases (mouse, wheel, key, paste): Input.dispatch* on the
\* session's channel, nothing when the session is not the connection's
MsInput(connectionId, sessionId) ==
  /\ IF ValidSession(sessionId, connectionId)
       THEN /\ msSessions[sessionId].inputs < MaxInputs
            /\ msSessions' = [msSessions EXCEPT ![sessionId].inputs = @ + 1]
            /\ msReply' = [to |-> connectionId, type |-> "none"]
       ELSE /\ msReply' = [to |-> connectionId, type |-> "none"]
            /\ UNCHANGED msSessions
  /\ UNCHANGED <<msConnSessions, msContexts, msNextId, msCreating, msClosing>>

\* case 'setQualityTier': an unknown tier is ignored; otherwise the
\* screencast is stopped and started and session.currentTier assigned
MsSetQualityTier(connectionId, sessionId, tier, ok) ==
  /\ IF ValidSession(sessionId, connectionId)
       THEN IF ~KnownTier(tier)
              THEN /\ msReply' = [to |-> connectionId, type |-> "none"]
                   /\ UNCHANGED msSessions
              ELSE IF ok
                THEN /\ msSessions' = [msSessions EXCEPT ![sessionId].currentTier = tier]
                     /\ msReply' = [to |-> connectionId, type |-> "qualityTierChanged"]
                ELSE /\ msReply' = [to |-> connectionId, type |-> "error"]
                     /\ UNCHANGED msSessions
       ELSE /\ msReply' = [to |-> connectionId, type |-> "error"]
            /\ UNCHANGED msSessions
  /\ UNCHANGED <<msConnSessions, msContexts, msNextId, msCreating, msClosing>>

\* case 'closeSession' up to the awaits of closeSession: a session that is not
\* registered is answered with sessionClosed at once
MsCloseSession(connectionId, sessionId) ==
  /\ <<connectionId, sessionId>> \notin msClosing
  /\ IF CloseGuard(sessionId, connectionId)
       THEN /\ msClosing' = msClosing \cup {<<connectionId, sessionId>>}
            /\ msReply' = [to |-> connectionId, type |-> "none"]
       ELSE /\ msReply' = [to |-> connectionId, type |-> "sessionClosed"]
            /\ UNCHANGED msClosing
  /\ UNCHANGED <<msSessions, msConnSessions, msContexts, msNextId, msCreating>>

\* closeSession resumes after cdp.detach and context.close (ok: both
\* fulfilled; otherwise the error is logged): sessions.delete,
\* connectionSessions.get(session.connectionId)?.delete, then sessionClosed
MsCloseSettle(connectionId, sessionId, ok) ==
  /\ <<connectionId, sessionId>> \in msClosing
  /\ msClosing' = msClosing \ {<<connectionId, sessionId>>}
  /\ msContexts' = IF ok THEN msContexts \ {sessionId} ELSE msContexts
  /\ msSessions' = IF sessionId \in DOMAIN msSessions
                     THEN MapDelete(msSessions, sessionId) ELSE msSessions
  /\ msConnSessions' = [c \in MsConns |-> msConnSessions[c] \ {sessionId}]
  /\ msReply' = [to |-> connectionId, type |-> "sessionClosed"]
  /\ UNCHANGED <<msNextId, msCreating>>


\* ------------------------------------------------------------------------
\* Specifications
\* ------------------------------------------------------------------------
vars == <<storeVars, cacheVars, recVars, cloneVars, connVars, capVars, fpVars, castVars, replayVars, disposeVars, msVars>>

Init ==
  StoreInit /\ CacheInit /\ RecInit /\ CloneInit /\ ConnInit /\ CapInit /\ FpIdle /\ CastInit
  /\ ReplayIdle /\ DisposeIdle /\ MsInit

\* what each specification leaves alone
notStore == <<cacheVars, recVars, cloneVars, connVars, capVars, fpVars, castVars, replayVars, replayVars,
  disposeVars, msVars>>
notCache == <<storeVars, recVars, cloneVars, connVars, capVars, fpVars, castVars, replayVars, replayVars,
  disposeVars, msVars>>
notRec == <<storeVars, cacheVars, cloneVars, connVars, capVars, fpVars, castVars, replayVars, replayVars,
  disposeVars, msVars>>
notClone == <<cacheVars, recVars, connVars, capVars, fpVars, castVars, replayVars, replayVars,
  disposeVars, msVars>>
notCloneNorStore == <<storeVars, cacheVars, recVars, connVars, capVars, fpVars, castVars, replayVars, replayVars,
  disposeVars, msVars>>
notConn == <<cacheVars, recVars, cloneVars, capVars, fpVars, castVars, replayVars, replayVars,
  disposeVars, msVars>>
notCap == <<storeVars, cacheVars, recVars, cloneVars, connVars, fpVars, castVars, replayVars,
  disposeVars, msVars>>
notFp == <<storeVars, cacheVars, recVars, cloneVars, connVars, capVars, castVars, replayVars,
  disposeVars, msVars>>
notCast == <<storeVars, cacheVars, recVars, cloneVars, connVars, capVars, fpVars, replayVars,
  disposeVars, msVars>>
notReplay == <<storeVars, cacheVars, recVars, cloneVars, connVars, capVars, fpVars, castVars,
  disposeVars, msVars>>
notDispose == <<storeVars, cacheVars, recVars, cloneVars, connVars, capVars, fpVars, castVars,
  replayVars, msVars>>

notMs == <<storeVars, cacheVars, recVars, cloneVars, connVars, capVars, fpVars, castVars,
  replayVars, disposeVars>>

\* the pending session store
NextStore ==
  \/ \E id \in ConnIds, s \in Sessions : Add(id, s) /\ UNCHANGED notStore
  \/ \E id \in ConnIds : Take(id) /\ UNCHANGED notStore
  \/ \E t \in Toks : TimerFire(t) /\ UNCHANGED notStore
  \/ FlushAll /\ UNCHANGED notStore
  \/ \E t \in Toks, ok \in BOOLEAN : DisposeSettle(t, ok) /\ UNCHANGED notStore
  \/ Tick /\ UNCHANGED notStore

\* one NetworkCache
NextCache ==
  \/ \E k \in Keys, r \in Responses : CacheSet(k, r) /\ UNCHANGED notCache
  \/ \E k \in Keys : CacheDelete(k) /\ UNCHANGED notCache
  \/ CacheClear /\ UNCHANGED notCache
  \/ \E d \in ImportData : CacheImport(d) /\ UNCHANGED notCache

\* event recording of one live session
NextRec ==
  \/ \E x \in Xs : MouseMoved(x, 1, "left", 0) /\ UNCHANGED notRec
  \/ \E d \in {0, 1} : MouseWheel(1, 1, 0, d, 0) /\ UNCHANGED notRec
  \/ OtherInput("mousePressed", 1) /\ UNCHANGED notRec
  \/ \E e \in {"true", "false", "absent"} : ToggleRecording(e) /\ UNCHANGED notRec
  \/ \E m \in BOOLEAN, u \in Urls : FrameNavigated(m, u) /\ UNCHANGED notRec
  \/ RecTick /\ UNCHANGED notRec

\* clone lifecycle: the cloneSession handler with failing calls, the source
\* session recording and capturing meanwhile, interception, parking, expiry,
\* attachment and disconnects
NextClone ==
  \/ \E ok \in BOOLEAN : CloneBegin(ok) /\ UNCHANGED notCloneNorStore
  \/ \E ok \in BOOLEAN : NewPageDone(ok) /\ UNCHANGED notCloneNorStore
  \/ \E ok \in BOOLEAN : ViewportDone(ok) /\ UNCHANGED notCloneNorStore
  \/ \E ok \in BOOLEAN : NewCDPDone(ok) /\ UNCHANGED notCloneNorStore
  \/ \E ok \in BOOLEAN : FetchEnableDone(ok) /\ UNCHANGED notCloneNorStore
  \/ \E ok \in BOOLEAN : GotoDone(ok) /\ UNCHANGED notCloneNorStore
  \/ \E ok \in BOOLEAN : ReplayDone(ok) /\ UNCHANGED notCloneNorStore
  \/ DisableDone /\ UNCHANGED notCloneNorStore
  \/ \E ok \in BOOLEAN : PostCDPDone(ok) /\ UNCHANGED notCloneNorStore
  \/ \E ok \in BOOLEAN : PostFetchDone(ok) /\ UNCHANGED notClone
  \/ "src" \notin disposed /\ LogAppend("src", 1) /\ UNCHANGED notCloneNorStore
  \/ \E k \in CloneKeys, r \in CloneResponses :
        "src" \notin disposed /\ SessCacheSet("src", k, r) /\ UNCHANGED notCloneNorStore
  \/ \E k \in RequestKeys : RequestPaused(k) /\ UNCHANGED notCloneNorStore
  \/ \E i \in 1..MaxReq, ok \in BOOLEAN : FulfillSettle(i, ok) /\ UNCHANGED notCloneNorStore
  \/ \E t \in Toks : PendingExpire(t) /\ UNCHANGED notClone
  \/ AttachClone /\ UNCHANGED notClone
  \/ CloseClone /\ UNCHANGED notClone
  \/ CloseSrc /\ UNCHANGED notClone
  \/ CloneTick /\ UNCHANGED notClone

\* the handler positions at which the isolation specification lets the logs
\* and caches change: before the manifest, between the manifest and the build
\* of the clone, and after the clone is parked (the handler steps in between
\* neither read nor write them)
IsoPoints == {"idle", "goto", "parked"}

\* clone isolation: a clone whose calls all succeed, and the operations on the
\* logs and caches of both sessions
NextIso ==
  \/ CloneBegin(TRUE) /\ UNCHANGED notCloneNorStore
  \/ NewPageDone(TRUE) /\ UNCHANGED notCloneNorStore
  \/ ViewportDone(TRUE) /\ UNCHANGED notCloneNorStore
  \/ NewCDPDone(TRUE) /\ UNCHANGED notCloneNorStore
  \/ FetchEnableDone(TRUE) /\ UNCHANGED notCloneNorStore
  \/ GotoDone(TRUE) /\ UNCHANGED notCloneNorStore
  \/ ReplayDone(TRUE) /\ UNCHANGED notCloneNorStore
  \/ DisableDone /\ UNCHANGED notCloneNorStore
  \/ PostCDPDone(TRUE) /\ UNCHANGED notCloneNorStore
  \/ PostFetchDone(TRUE) /\ UNCHANGED notClone
  \/ \E s \in SessNames : pc \in IsoPoints /\ LogAppend(s, 1) /\ UNCHANGED notCloneNorStore
  \/ \E s \in SessNames, k \in CloneKeys, r \in CloneResponses :
        pc \in IsoPoints /\ SessCacheSet(s, k, r) /\ UNCHANGED notCloneNorStore
  \/ \E s \in SessNames : pc = "parked" /\ LogClear(s) /\ UNCHANGED notCloneNorStore
  \/ \E s \in SessNames, i \in 1..MaxSrcLog :
        pc = "parked" /\ EditData(s, i, 2) /\ UNCHANGED notCloneNorStore
  \/ \E s \in SessNames, i \in 1..MaxSrcLog :
        pc = "parked" /\ EditTimestamp(s, i, 9) /\ UNCHANGED notCloneNorStore
  \/ \E s \in SessNames : pc = "parked" /\ SessCacheClear(s) /\ UNCHANGED notCloneNorStore

\* connections opening and closing around a parked clone
NextConn ==
  \/ ParkClone /\ UNCHANGED notConn
  \/ \E w \in Conns, r \in {"none", clonedConnectionId} : OpenStart(w, r) /\ UNCHANGED notConn
  \/ \E w \in Conns, ok \in BOOLEAN : OpenCreated(w, ok) /\ UNCHANGED notConn
  \/ \E w \in Conns, ok \in BOOLEAN : OpenStarted(w, ok) /\ UNCHANGED notConn
  \/ \E w \in Conns : CloseStart(w) /\ UNCHANGED notConn
  \/ \E w \in Conns : CloseDisposed(w) /\ UNCHANGED notConn
  \/ \E t \in Toks : ConnExpire(t) /\ UNCHANGED notConn
  \/ ConnTick /\ UNCHANGED notConn

SpecStore == Init /\ [][NextStore]_vars
SpecCache == Init /\ [][NextCache]_vars
SpecRec == Init /\ [][NextRec]_vars

\* wheel aggregation: wheel events <<x, deltaX, deltaY>> scrolling down, right
\* and back up at two positions
WheelEvents == {<<1, 0, 1>>, <<2, 1, 0>>, <<2, 0, -1>>}

NextWheel ==
  \/ \E e \in WheelEvents : MouseWheel(e[1], 1, e[2], e[3], 0) /\ UNCHANGED notRec
  \/ \E e \in {"true", "false"} : ToggleRecording(e) /\ UNCHANGED notRec
  \/ \E u \in Urls : FrameNavigated(TRUE, u) /\ UNCHANGED notRec
  \/ RecTick /\ UNCHANGED notRec

SpecWheel == Init /\ [][NextWheel]_vars
SpecClone == Init /\ [][NextClone]_vars
SpecIso == Init /\ [][NextIso]_vars
SpecConn == Init /\ [][NextConn]_vars

\* network capture on a live session
NextCap ==
  \/ \E st \in CapStatuses, h \in BOOLEAN, r \in CapResponses :
        CapPaused(st, h, "k1", r) /\ UNCHANGED notCap
  \/ \E i \in 1..MaxCapReq, ok \in BOOLEAN : CapBodySettle(i, ok) /\ UNCHANGED notCap
  \/ \E i \in 1..MaxCapReq, ok \in BOOLEAN : CapContinueSettle(i, ok) /\ UNCHANGED notCap
  \/ CapDispose /\ UNCHANGED notCap

SpecCap == Init /\ [][NextCap]_vars

\* the fingerprints of two requests, at capture and at replay
NextFp ==
  \/ FpCapture /\ UNCHANGED notFp
  \/ FpReplay /\ UNCHANGED notFp

InitFp ==
  StoreInit /\ CacheInit /\ RecInit /\ CloneInit /\ ConnInit /\ CapInit /\ FpInit /\ CastInit
  /\ ReplayIdle /\ DisposeIdle /\ MsInit

SpecFp == InitFp /\ [][NextFp]_vars

\* the screencast of a live session
NextCast ==
  \/ OpenScreencast /\ UNCHANGED notCast
  \/ \E tier \in Tiers : SetQualityTier(tier) /\ UNCHANGED notCast
  \/ \E i \in 1..Len(scCalls) : ActiveSettle(i) /\ UNCHANGED notCast
  \/ \E i \in 1..Len(scCalls) : StopSettle(i) /\ UNCHANGED notCast
  \/ \E i \in 1..Len(scCalls), ok \in BOOLEAN : StartSettle(i, ok) /\ UNCHANGED notCast
  \/ \E i \in 1..Len(scCalls) : ForceSettle(i) /\ UNCHANGED notCast
  \/ FrameArrives /\ UNCHANGED notCast
  \/ WatchdogFire /\ UNCHANGED notCast
  \/ cleanupScreencast /\ UNCHANGED notCast
  \/ disposeSession /\ UNCHANGED notCast

SpecCast == Init /\ [][NextCast]_vars

\* the control messages of a live session
NextCtl ==
  \/ OpenScreencast /\ UNCHANGED notCast
  \/ \E tier \in Tiers : SetQualityTier(tier) /\ UNCHANGED notCast
  \/ \E i \in 1..Len(scCalls) : ActiveSettle(i) /\ UNCHANGED notCast
  \/ \E i \in 1..Len(scCalls) : StopSettle(i) /\ UNCHANGED notCast
  \/ \E i \in 1..Len(scCalls), ok \in BOOLEAN : StartSettle(i, ok) /\ UNCHANGED notCast
  \/ \E i \in 1..Len(scCalls) : ForceSettle(i) /\ UNCHANGED notCast
  \/ \E ok \in BOOLEAN : Navigate(ok) /\ UNCHANGED notCast
  \/ \E ok \in BOOLEAN : CaptureSnapshot(ok) /\ UNCHANGED notCast

SpecCtl == Init /\ [][NextCtl]_vars

\* the replay of an event log
NextReplay ==
  \/ ReplayStart /\ UNCHANGED notReplay
  \/ \E ok \in BOOLEAN : EvalStartDone(ok) /\ UNCHANGED notReplay
  \/ LoopStep /\ UNCHANGED notReplay
  \/ FlushDone /\ UNCHANGED notReplay
  \/ \E i \in 1..Len(rpState), ok \in BOOLEAN : DispatchSettle(i, ok) /\ UNCHANGED notReplay
  \/ \E ok \in BOOLEAN : EvalEndDone(ok) /\ UNCHANGED notReplay

InitReplay ==
  /\ StoreInit /\ CacheInit /\ RecInit /\ CloneInit /\ ConnInit /\ CapInit /\ FpIdle
  /\ CastInit /\ ReplayInit /\ DisposeIdle /\ MsInit

SpecReplay == InitReplay /\ [][NextReplay]_vars

\* the teardown of a session
NextDispose ==
  \/ DisposeCall /\ UNCHANGED notDispose
  \/ \E ok \in BOOLEAN : DisposeStopSettle(ok) /\ UNCHANGED notDispose
  \/ \E ok \in BOOLEAN : DisposeFetchSettle(ok) /\ UNCHANGED notDispose
  \/ \E ok \in BOOLEAN : DisposeNetworkDetachSettle(ok) /\ UNCHANGED notDispose
  \/ \E ok \in BOOLEAN : DisposeCdpDetachSettle(ok) /\ UNCHANGED notDispose
  \/ \E ok \in BOOLEAN : DisposePageCloseSettle(ok) /\ UNCHANGED notDispose
  \/ \E ok \in BOOLEAN : DisposeContextCloseSettle(ok) /\ UNCHANGED notDispose

InitDispose ==
  /\ StoreInit /\ CacheInit /\ RecInit /\ CloneInit /\ ConnInit /\ CapInit /\ FpIdle
  /\ CastInit /\ ReplayIdle /\ DisposeInit /\ MsInit

SpecDispose == InitDispose /\ [][NextDispose]_vars

\* two connections sending messages to the multi-session handler
NextMs ==
  \/ \E c \in MsConns, tier \in {"primary", "background"} : MsCreateStart(c, tier) /\ UNCHANGED notMs
  \/ \E sid \in MsIds, ok \in BOOLEAN : MsCreateDone(sid, ok) /\ UNCHANGED notMs
  \/ \E c \in MsConns, sid \in MsIds, ok \in BOOLEAN : MsNavigate(c, sid, ok) /\ UNCHANGED notMs
  \/ \E c \in MsConns, sid \in MsIds : MsInput(c, sid) /\ UNCHANGED notMs
  \/ \E c \in MsConns, sid \in MsIds, tier \in MsTierNames, ok \in BOOLEAN :
        MsSetQualityTier(c, sid, tier, ok) /\ UNCHANGED notMs
  \/ \E c \in MsConns, sid \in MsIds : MsCloseSession(c, sid) /\ UNCHANGED notMs
  \/ \E c \in MsConns, sid \in MsIds, ok \in BOOLEAN : MsCloseSettle(c, sid, ok) /\ UNCHANGED notMs

SpecMs == Init /\ [][NextMs]_vars

\* ------------------------------------------------------------------------
\* Properties
\* ------------------------------------------------------------------------

\* C1: for every entry ever added to the pending store, options.dispose is
\* invoked at most once, and never for an entry that take has returned.
C1_DisposeAtMostOnceNeverTaken ==
  \A t \in Toks : DisposeCount(t) <= 1 /\ (t \in taken => DisposeCount(t) = 0)

\* an entry was taken and its deadline has passed with nothing disposed for it,
\* while another entry was disposed by its timer
C1_Witness ==
  \E t \in taken, u \in Toks \ taken :
     /\ now >= timerInfo[t].deadline
     /\ DisposeCount(u) = 1

\* C4: the cached bytes (the running total and the sum of the stored bodies)
\* never exceed maxSize.
C4_TotalWithinCeiling ==
  /\ nc.totalSize <= maxSize
  /\ SumBodies(nc.cache) <= maxSize

\* the cache is exactly full and the last set was refused by the ceiling
C4_Witness ==
  /\ nc.totalSize = maxSize
  /\ Len(nc.cache) = 2
  /\ lastOp.op = "set"
  /\ lastOp.result = FALSE
  /\ shouldCache(lastOp.response[1])

\* C5 as stated: set refuses every response whose body is larger than
\* maxResponseSize, whatever its resource type, and stores nothing.
C5_OversizeAlwaysRefused ==
  (lastOp.op = "set" /\ lastOp.response[1].size > maxResponseSize)
     => (lastOp.result = FALSE /\ nc = lastOp.before)

\* C5 amended: set refuses a response of a non-essential type whose body is
\* maxResponseSize bytes or more and stores nothing; a response of an
\* essential type is admitted whatever its size, exactly when the global
\* ceiling allows it.
C5_OversizeRefusedUnlessEssential ==
  lastOp.op = "set" =>
    LET r == lastOp.response[1]
        b == lastOp.before
        oldSize == IF MapHas(b.cache, lastOp.key) THEN MapGet(b.cache, lastOp.key).size ELSE 0
    IN /\ (r.resourceType \notin essentialTypes /\ r.size >= maxResponseSize)
            => (lastOp.result = FALSE /\ nc = b)
       /\ r.resourceType \in essentialTypes
            => (lastOp.result = (b.totalSize - oldSize + r.size <= maxSize))
       /\ lastOp.result => (MapHas(nc.cache, lastOp.key) /\ MapGet(nc.cache, lastOp.key) = r)

\* an essential response above the per-entry ceiling was admitted and is stored
C5_Witness ==
  /\ lastOp.op = "set"
  /\ lastOp.result = TRUE
  /\ lastOp.response[1].size > maxResponseSize
  /\ MapGet(nc.cache, lastOp.key).size > maxResponseSize

\* C6 as stated: once an aggregation window that received N >= 1 mouse moves
\* while recording is over, exactly one mouseMoved record was appended in it,
\* carrying the coordinates of the last of the N moves.
C6_OneRecordWithLastPosition ==
  (burst.open /\ clock - burst.start >= AGGREGATE_INTERVAL)
     => /\ Len(burst.appended) = 1
        /\ burst.appended[1] = burst.xs[Len(burst.xs)]

\* C7: a main-frame navigation to a URL other than the last observed one
\* empties the event log and resets the session start and both flush timers
\* to the current time, and no record of an earlier epoch is in the log later.
C7_NavigationResetsLog ==
  /\ (lastHandled.kind = "framenavigated" /\ lastHandled.changed)
        => /\ eventLog = <<>>
           /\ sessionStartTime = clock
           /\ mouseMoveAccumulator.lastFlush = clock
           /\ scrollAccumulator.lastFlush = clock
           /\ scrollAccumulator.deltaX = 0
           /\ scrollAccumulator.deltaY = 0
  /\ \A i \in 1..Len(eventLog) : eventLog[i].epoch = navEpoch

\* records were dropped by a navigation reset and new ones recorded after it
C7_Witness ==
  /\ navEpoch >= 1
  /\ Len(eventLog) >= 1
  /\ pushed > Len(eventLog)

\* C2 as stated: when a clone request has failed, nothing created for the
\* attempt is open: the target page is closed and its channels are detached.
C2_FailedCloneLeavesNoTarget ==
  pc = "failed" => ("p2" \notin openPages /\ attached \cap {"c2", "n2"} = {})

\* C3 as stated, for runs in which both handlers of a connection have
\* finished: the session created for or attached to the connection has been
\* disposed and is no longer in the live map.
C3_ClosedConnectionSessionTornDown ==
  \A w \in Conns :
    (closePc[w] = "done" /\ openPc[w] \in {"done", "failed", "rejected"} /\ created[w] # "none")
       => /\ created[w] \in connDisposed
          /\ \A id \in DOMAIN contexts : contexts[id] # created[w]

\* the actions that change a session's cache or event log
CacheOpOn(s) ==
  \/ \E k \in CloneKeys, r \in CloneResponses : SessCacheSet(s, k, r)
  \/ SessCacheClear(s)

LogOpOn(s) ==
  \/ LogAppend(s, 1)
  \/ LogClear(s)
  \/ \E i \in 1..MaxSrcLog : EditData(s, i, 2)
  \/ \E i \in 1..MaxSrcLog : EditTimestamp(s, i, 9)

Other(s) == IF s = "src" THEN "clone" ELSE "src"

C9_CloneTeardownKeepsContext ==
  /\ "clone" \in DOMAIN sess => sess["clone"].ownsContext = FALSE
  /\ "clone" \notin ctxClosedBy
  /\ "clone" \in disposed =>
        /\ "p2" \notin openPages
        /\ attached \cap {"c2", "n2"} = {}
        /\ "src" \notin disposed =>
              ("ctx1" \in openContexts /\ "p1" \in openPages
                 /\ {"c1", "n1"} \subseteq attached)

\* the clone was disposed by the pending TTL and the source lives on
C9_Witness ==
  /\ "clone" \in disposed
  /\ "src" \notin disposed
  /\ \E i \in 1..Len(disposeCalls) : disposeCalls[i].session = "clone"
  /\ "ctx1" \in openContexts

\* cloneSession has returned or thrown
CloneEnded == pc \in {"failed", "postCDP", "postFetch", "parked"}

\* C10: when cloneSession has ended after the interception was installed, the
\* handler is no longer registered and Fetch.disable has been sent on the
\* target; a paused request emitted after that cleanup causes no protocol call.
C10_InterceptionTornDown ==
  /\ (installed /\ CloneEnded) => cleanedUp
  /\ cleanedUp =>
        /\ ~listener
        /\ \E i \in 1..Len(cdpCalls) : cdpCalls[i] = "Fetch.disable"
        /\ \A i \in 1..Len(reqs) : reqs[i].afterCleanup => reqs[i].calls = <<>>

\* a clone failed in navigation or replay after a request was served, and a
\* paused request arrived after the cleanup
C10_Witness ==
  /\ pc = "failed"
  /\ installed
  /\ cleanedUp
  /\ \E i, j \in 1..Len(reqs) :
        /\ ~reqs[i].afterCleanup /\ reqs[i].calls # <<>>
        /\ reqs[j].afterCleanup

\* C11: a paused request handled while the interception is installed is, on a
\* cache hit, answered by Fetch.fulfillRequest carrying the cached status,
\* headers and body, and continued when that fulfillment fails; on a miss it is
\* continued; once handled it is either fulfilled or continued.
C11_PausedRequestServedOrContinued ==
  \A i \in 1..Len(reqs) :
    ~reqs[i].afterCleanup =>
      /\ reqs[i].result \in {"pending", "fulfilled", "continued"}
      /\ (reqs[i].state = "done") = (reqs[i].result # "pending")
      /\ IF reqs[i].cached # <<>>
           THEN /\ reqs[i].calls[1] = "Fetch.fulfillRequest"
                /\ reqs[i].served =
                     <<[responseCode |-> reqs[i].cached[1].status,
                        responseHeaders |-> HeaderEntries(reqs[i].cached[1].responseHeaders),
                        body |-> Base64(reqs[i].cached[1].body)]>>
                /\ reqs[i].result = "fulfilled" => reqs[i].calls = <<"Fetch.fulfillRequest">>
                /\ reqs[i].result = "continued" =>
                     reqs[i].calls = <<"Fetch.fulfillRequest", "Fetch.continueRequest">>
           ELSE /\ reqs[i].calls = <<"Fetch.continueRequest">>
                /\ reqs[i].result = "continued"
                /\ reqs[i].served = <<>>

\* a hit whose fulfillment failed and a miss, both handled while installed
C11_Witness ==
  \E i, j \in 1..Len(reqs) :
    /\ ~reqs[i].afterCleanup /\ reqs[i].cached # <<>> /\ reqs[i].result = "continued"
    /\ ~reqs[j].afterCleanup /\ reqs[j].cached = <<>> /\ reqs[j].result = "continued"

\* the number of Fetch.continueRequest calls in a sequence of protocol calls
Continues(calls) == Cardinality({j \in 1..Len(calls) : calls[j] = "Fetch.continueRequest"})

\* C12: a paused response the capture listener has finished with was continued
\* exactly once, whether it was a redirect, had no headers, was admitted or
\* rejected by the cache or its body could not be read; no paused response is
\* continued more than once and none is answered by Fetch.fulfillRequest.
C12_CaptureContinuesExactlyOnce ==
  \A i \in 1..Len(capReqs) :
    /\ Continues(capReqs[i].calls) <= 1
    /\ capReqs[i].pc \in {"continuing", "done"} => Continues(capReqs[i].calls) = 1
    /\ \A j \in 1..Len(capReqs[i].calls) : capReqs[i].calls[j] # "Fetch.fulfillRequest"

\* three finished requests: one admitted, one rejected by the cache, one whose
\* body fetch failed
C12_Witness ==
  \E a, b, c \in 1..Len(capReqs) :
    /\ capReqs[a].pc = "done" /\ capReqs[a].stored = "admitted"
    /\ capReqs[b].pc = "done" /\ capReqs[b].stored = "rejected"
    /\ capReqs[c].pc = "done" /\ capReqs[c].stored = "bodyFailed"

\* a later add of the same id has replaced the entry with timer handle t
Superseded(t) ==
  \E u \in DOMAIN timerInfo : u > t /\ timerInfo[u].id = timerInfo[t].id

\* C13: before its TTL has elapsed an entry that was not taken, replaced or
\* flushed is in the store, and a take that removes an entry returns that
\* entry's session; once taken the entry is gone from the store (a take that
\* finds nothing returns absent), its timer is cancelled, and options.dispose
\* is never invoked for it, however much time passes.
C13_TakeBeforeExpiryReturnsSession ==
  /\ [](\A t \in DOMAIN timerInfo :
          /\ (now < timerInfo[t].deadline /\ t \notin (taken \cup flushSet) /\ ~Superseded(t))
                => /\ timerInfo[t].id \in DOMAIN entries
                   /\ entries[timerInfo[t].id].timeout = t
          /\ t \in taken
                => /\ t \notin armed
                   /\ DisposeCount(t) = 0
                   /\ \A k \in DOMAIN entries : entries[k].timeout # t)
  /\ [][/\ \A id \in DOMAIN entries :
              entries[id].timeout \in (taken' \ taken)
                 => takeResult' = <<entries[id].session>> /\ id \notin DOMAIN entries'
        /\ (takeResult' # takeResult /\ taken' = taken)
              => takeResult' = <<"absent">> /\ entries' = entries]_vars

\* an entry was taken and its deadline has not passed yet; the take after that
\* one has returned absent, the id is not in the store and nothing was disposed
C13_Witness ==
  \E t \in taken :
     /\ now < timerInfo[t].deadline
     /\ timerInfo[t].id \notin DOMAIN entries
     /\ takeResult = <<"absent">>
     /\ disposeCalls = <<>>
     /\ armed = {}

\* C14 as stated: an entry that was not taken before its TTL elapsed is disposed
\* by the timer, so no take returns an entry at or after its deadline, and no
\* entry is disposed twice.
C14_UntakenEntryDisposedByTimer ==
  /\ [](\A t \in Toks : DisposeCount(t) <= 1)
  /\ [][\A t \in DOMAIN timerInfo :
          (t \in taken' /\ t \notin taken) => now < timerInfo[t].deadline]_vars

\* C14, amended: the timer of an entry never fires before its deadline; when it
\* fires while the entry is in the store, options.dispose is invoked with the
\* entry's id and session and the entry is removed; an entry disposed by its
\* timer is disposed exactly once, was never returned by take and is not in
\* the store afterwards.
C14_EntryInStoreAtTimerFireDisposedOnce ==
  /\ [](\A t \in Toks :
          (DisposeCount(t) >= 1 /\ t \notin flushSet)
             => /\ DisposeCount(t) = 1
                /\ t \notin taken
                /\ t \notin armed
                /\ \A k \in DOMAIN entries : entries[k].timeout # t)
  /\ [][\A t \in DOMAIN timerInfo :
          LET id == timerInfo[t].id IN
          /\ (DisposeCount(t)' > DisposeCount(t) /\ flushPc' = flushPc)
               => /\ t \in armed
                  /\ now >= timerInfo[t].deadline
                  /\ id \in DOMAIN entries
                  /\ entries[id].timeout = t
                  /\ disposeCalls' = Append(disposeCalls,
                        [id |-> id, session |-> entries[id].session, tok |-> t])
                  /\ id \notin DOMAIN entries'
          /\ (/\ t \in armed /\ t \notin armed'
              /\ id \in DOMAIN entries /\ entries[id].timeout = t
              /\ taken' = taken /\ flushPc' = flushPc /\ nextTok' = nextTok)
               => /\ now >= timerInfo[t].deadline
                  /\ DisposeCount(t)' = 1]_vars

\* an entry was disposed by its timer; the take after that returned absent and
\* the id is not in the store
C14_Witness ==
  \E t \in Toks :
     /\ DisposeCount(t) = 1
     /\ flushPc = "idle"
     /\ taken = {}
     /\ takeResult = <<"absent">>
     /\ now >= timerInfo[t].deadline
     /\ timerInfo[t].id \notin DOMAIN entries

C16_FlushAllAwaitsAllDisposals ==
  flushPc \in {"resolved", "rejected"} => flushSet \cap inflight = {}

\* C17: the entry the store holds for an id is the one of the latest add of
\* that id and its timer is the only armed timer of the id, so the timer of a
\* replaced entry never fires; an add arms a timer due one TTL later, and a
\* timer disposes an entry only when that entry's own deadline has passed.
C17_ReAddRestartsCountdown ==
  /\ [](\A id \in DOMAIN entries :
          LET t == entries[id].timeout IN
          /\ t \in armed
          /\ timerInfo[t].id = id
          /\ ~Superseded(t)
          /\ \A u \in DOMAIN timerInfo : (timerInfo[u].id = id /\ u # t) => u \notin armed)
  /\ [](\A u \in DOMAIN timerInfo : Superseded(u) => u \notin armed)
  /\ [][/\ nextTok' # nextTok =>
             /\ timerInfo'[nextTok].deadline = now + ttlMs
             /\ entries'[timerInfo'[nextTok].id].timeout = nextTok
             /\ Cardinality(DOMAIN entries') =
                  Cardinality(DOMAIN entries \cup {timerInfo'[nextTok].id})
        /\ \A t \in DOMAIN timerInfo :
             (DisposeCount(t)' > DisposeCount(t) /\ flushPc' = flushPc)
                => now >= timerInfo[t].deadline /\ ~Superseded(t)]_vars

\* an id was added again while pending: the deadline of the first add has
\* passed, the deadline of the second has not, the store holds the second
\* entry and nothing was disposed
C17_Witness ==
  \E t, u \in DOMAIN timerInfo :
     /\ u > t
     /\ timerInfo[u].id = timerInfo[t].id
     /\ t \notin (taken \cup flushSet)
     /\ disposeCalls = <<>>
     /\ now >= timerInfo[t].deadline
     /\ now < timerInfo[u].deadline
     /\ timerInfo[u].id \in DOMAIN entries
     /\ entries[timerInfo[u].id].timeout = u

\* the stored bytes after set(key, response) on the cache c, were it admitted
TotalAfter(c, key, response) ==
  c.totalSize + response.size
     - (IF MapHas(c.cache, key) THEN MapGet(c.cache, key).size ELSE 0)

\* C18 as stated: a set that keeps the total within the global ceiling
\* succeeds and stores the response, and a set that would push the total over
\* the ceiling returns false and leaves the cache as it was.
C18_UnderCeilingAlwaysAdmitted ==
  lastOp.op = "set" =>
    LET r == lastOp.response[1]
        total == TotalAfter(lastOp.before, lastOp.key, r)
    IN /\ total <= maxSize =>
            /\ lastOp.result
            /\ MapHas(nc.cache, lastOp.key) /\ MapGet(nc.cache, lastOp.key) = r
            /\ nc.totalSize = total
       /\ total > maxSize => ~lastOp.result /\ nc = lastOp.before

\* C18, amended: a set of a response the per-entry rule admits (an essential
\* type, or a body below the per-entry ceiling) that keeps the total within
\* the global ceiling succeeds, stores the response and leaves the other
\* entries alone; every refused set, by either rule, returns false and leaves
\* the cache as it was.
C18_AdmissibleUnderCeilingAdmitted ==
  lastOp.op = "set" =>
    LET r == lastOp.response[1]
        total == TotalAfter(lastOp.before, lastOp.key, r)
        admissible == r.resourceType \in essentialTypes \/ r.size < maxResponseSize
    IN /\ (admissible /\ total <= maxSize) =>
            /\ lastOp.result
            /\ MapHas(nc.cache, lastOp.key) /\ MapGet(nc.cache, lastOp.key) = r
            /\ nc.totalSize = total
            /\ MapRemove(nc.cache, lastOp.key) = MapRemove(lastOp.before.cache, lastOp.key)
       /\ (~admissible \/ total > maxSize) => ~lastOp.result
       /\ ~lastOp.result => nc = lastOp.before

\* a set was refused by the global ceiling on a cache holding an entry, and
\* the cache is as before
C18_Witness ==
  /\ lastOp.op = "set"
  /\ ~lastOp.result
  /\ lastOp.response[1].resourceType \in essentialTypes
  /\ TotalAfter(lastOp.before, lastOp.key, lastOp.response[1]) > maxSize
  /\ lastOp.before.cache # <<>>
  /\ nc = lastOp.before

\* C19: importing the export of the cache, into a new cache or into a cache of
\* the same size policy that already holds entries, gives a cache with the same
\* keys and responses in the same order, the same total and the same stats.
C19_ExportImportRoundTrip ==
  \A target \in {EmptyCache} \cup {NCSet(EmptyCache, k, r).nc : k \in Keys, r \in Responses} :
    LET c == NCImport(target, NCExport(nc))
    IN /\ c.cache = nc.cache
       /\ c.totalSize = nc.totalSize
       /\ NCStats(c) = NCStats(nc)
       /\ Len(NCExport(c)) = Len(NCExport(nc))

\* the cache is full with two entries of different types, one of them an
\* essential response above the per-entry ceiling
C19_Witness ==
  /\ nc.totalSize = maxSize
  /\ Len(nc.cache) = 2
  /\ nc.cache[1].response.resourceType # nc.cache[2].response.resourceType
  /\ \E i \in 1..2 : nc.cache[i].response.size > maxResponseSize

\* the inputs of the fingerprint: method, URL, the values of the four critical
\* headers and the body, a missing header or body counting as empty
FpInputs(request) ==
  [method |-> request.method, url |-> request.url,
   critical |-> [i \in 1..Len(criticalHeaders) |->
                   IF request.headers[criticalHeaders[i]] = "absent"
                     THEN "" ELSE request.headers[criticalHeaders[i]]],
   body |-> IF request.postData = "absent" THEN "" ELSE request.postData]

\* C20: two requests with the same method, URL, critical header values and
\* body have the same key, whatever their other headers; two requests that
\* differ in the body and in nothing else of these have different keys; and
\* the key the interception handler computes for a request is the key the
\* capture listener computes for it.
C20_FingerprintPureAndShared ==
  /\ (fpKeys.capA # <<>> /\ FpInputs(fpA) = FpInputs(fpB)) => fpKeys.capA = fpKeys.capB
  /\ (fpKeys.repA # <<>> /\ FpInputs(fpA) = FpInputs(fpB)) => fpKeys.repA = fpKeys.repB
  /\ (/\ fpKeys.capA # <<>>
      /\ FpInputs(fpA).body # FpInputs(fpB).body
      /\ [FpInputs(fpA) EXCEPT !.body = ""] = [FpInputs(fpB) EXCEPT !.body = ""])
       => fpKeys.capA # fpKeys.capB
  /\ (/\ fpKeys.repA # <<>>
      /\ FpInputs(fpA).body # FpInputs(fpB).body
      /\ [FpInputs(fpA) EXCEPT !.body = ""] = [FpInputs(fpB) EXCEPT !.body = ""])
       => fpKeys.repA # fpKeys.repB
  /\ (fpKeys.capA # <<>> /\ fpKeys.repA # <<>>)
       => fpKeys.capA = fpKeys.repA /\ fpKeys.capB = fpKeys.repB

\* two POST requests that differ in the body and in a non-critical header
\* only, with all four keys computed
C20_Witness ==
  /\ fpKeys.capA # <<>> /\ fpKeys.repA # <<>>
  /\ fpA.method = "POST" /\ fpB.method = "POST"
  /\ fpA.postData = "p" /\ fpB.postData = "q"
  /\ fpA.headers["x-trace"] # fpB.headers["x-trace"]
  /\ fpA.headers["cookie"] = "sid"
  /\ [FpInputs(fpA) EXCEPT !.body = ""] = [FpInputs(fpB) EXCEPT !.body = ""]
  /\ fpKeys.repA # fpKeys.repB

\* position of a stage in the order initializing, loading, replaying, complete
StageRank(stage) ==
  CASE stage = "initializing" -> 1 [] stage = "loading" -> 2
    [] stage = "replaying" -> 3 [] stage = "complete" -> 4 [] OTHER -> 5

\* C21: the reports of a clone never go back in stage order or in progress,
\* complete is reported with 100 and is the last report; once cloneSession has
\* built the clone of a session with a non-empty event log the reports were
\* initializing, loading, replaying and complete, in that order.
C21_ProgressStagesInOrder ==
  /\ \A i, j \in 1..Len(progress) :
        i < j => /\ StageRank(progress[i].stage) <= StageRank(progress[j].stage)
                 /\ progress[i].progress <= progress[j].progress
  /\ \A i \in 1..Len(progress) :
        progress[i].stage = "complete" => i = Len(progress) /\ progress[i].progress = 100
  /\ ("clone" \in DOMAIN sess /\ arrays[manifest.eventLog] # <<>>)
        => /\ {progress[i].stage : i \in 1..Len(progress)}
                = {"initializing", "loading", "replaying", "complete"}
           /\ progress[Len(progress)] = [stage |-> "complete", progress |-> 100]

\* the clone of a session with a non-empty event log is parked
C21_Witness ==
  /\ pc = "parked"
  /\ "clone" \in DOMAIN sess
  /\ arrays[manifest.eventLog] # <<>>
  /\ Len(progress) = 5

\* C22: when a clone attempt has ended, the last stage reported is complete or
\* failed, and it is failed when the attempt failed.
C22_FailedCloneReportsFailed ==
  /\ CloneEnded => /\ progress # <<>>
                   /\ progress[Len(progress)].stage \in {"complete", "failed"}
  /\ pc = "failed" => /\ progress # <<>>
                      /\ progress[Len(progress)].stage = "failed"

\* C23: a control message (navigate, setQualityTier, captureSnapshot) whose
\* handling failed is answered with an error message, the session still
\* registered and not torn down.
C23_HandlingFailureAnsweredWithError ==
  lastReply.failed => (lastReply.reply = "error" /\ teardown = "none")

\* C26: the startup watchdog restarts the stream at most
\* MAX_SCREENCAST_RESTARTS times between two zeroings of the attempt counter
\* (an explicit start, a frame, a teardown); each timeout either restarts the
\* stream or, past the ceiling, starts nothing and leaves no timer armed.
C26_WatchdogRestartsBounded ==
  /\ [](restartsSince <= MAX_SCREENCAST_RESTARTS)
  /\ [][screencastRestartAttempts' = screencastRestartAttempts + 1 =>
          IF screencastRestartAttempts' > MAX_SCREENCAST_RESTARTS
            THEN screencastStartupTimeout' = 0 /\ scCalls' = scCalls
            ELSE /\ Len(scCalls') = Len(scCalls) + 1
                 /\ scCalls'[Len(scCalls')].origin = "watchdog"]_vars

\* no frame ever arrived, the stream was restarted three times and the fourth
\* timeout gave up
C26_Witness ==
  /\ framedStart = 0
  /\ teardown = "none"
  /\ restartsSince = MAX_SCREENCAST_RESTARTS
  /\ screencastRestartAttempts = MAX_SCREENCAST_RESTARTS + 1
  /\ screencastStartupTimeout = 0
  /\ \A i \in 1..Len(scCalls) : scCalls[i].pc = "done"

\* C27: once a frame has been received from the current capture start the
\* restart counter is 0, and no timeout of the watchdog armed by that start
\* restarts the stream.
C27_FrameResetsWatchdog ==
  /\ []((stream # "down" /\ framedStart = streamBy) => screencastRestartAttempts = 0)
  /\ [][(screencastStartupTimeout # 0 /\ screencastStartupTimeout = framedStart)
          => Len(scCalls') = Len(scCalls)]_vars

\* C28: no Page.startScreencast takes effect on a stream that was not stopped
\* first, and when no start is in progress the recorded tier is the tier of
\* the running stream.
C28_OneTierActive ==
  /\ ~startedOverStream
  /\ (InProgress = {} /\ stream # "down") => currentQualityTier = stream

\* C29: at most one frame handler is attached to the session's channel at any
\* time, and none is attached once disposeSession has completed.
C29_TeardownRemovesListeners ==
  /\ Cardinality(frameListeners) <= 1
  /\ teardown = "done" => frameListeners = {}

\* C30: once disposeSession has completed no startup watchdog timer is armed,
\* and no timeout starts the screencast again.
C30_NoWatchdogAfterTeardown ==
  /\ [](teardown = "done" => screencastStartupTimeout = 0)
  /\ [][teardown = "done" => Len(scCalls') = Len(scCalls)]_vars

\* what a clone operation must leave alone in its source session
SrcView ==
  [cache |-> CacheView("src"), eventLog |-> LogView("src"), session |-> sess["src"],
   page |-> "p1" \in openPages, context |-> "ctx1" \in openContexts,
   channels |-> attached \cap ChannelsOf("p1"), registered |-> "src" \notin disposed]

\* C24: no step of the cloneSession handler or of the clone's interception
\* handler, failing ones included, changes the source session's cache entries
\* and stats, event log, fields (recording flag included), page, context,
\* channels or registration.
C24_FailedCloneLeavesSource ==
  [][(pc' # pc \/ reqs' # reqs) => SrcView' = SrcView]_vars

\* a clone failed after its interception served a request, the source holding
\* cache entries and recorded events
C24_Witness ==
  /\ pc = "failed"
  /\ cleanedUp
  /\ \E i \in 1..Len(reqs) : reqs[i].calls # <<>>
  /\ CacheView("src").stats.entries > 0
  /\ Len(LogView("src")) > 0

\* C25: no session is held by the live map and by the pending store at once.
C25_LiveOrPendingNeverBoth ==
  \A c \in DOMAIN contexts, id \in DOMAIN entries : contexts[c] # entries[id].session

\* a client attached to the parked clone: the live map holds it, the store no
\* longer does, and its countdown is disarmed
C25_Witness ==
  /\ clonedConnectionId \in DOMAIN contexts
  /\ contexts[clonedConnectionId] = "clone"
  /\ clonedConnectionId \notin DOMAIN entries
  /\ taken # {}
  /\ takeResult = <<"clone">>

\* C31: dispatches are issued in non-decreasing timestamp order, equal
\* timestamps in log order; a dispatch of an event that is neither a
\* mouse-move nor a wheel event is issued only when every dispatch issued
\* before it has settled; when replayEvents has ended no dispatch is pending.
C31_ReplayOrdering ==
  /\ [](\A a, b \in 1..Len(rpOrder) :
          a < b => LET x == rpSerialized[rpOrder[a]]
                       y == rpSerialized[rpOrder[b]]
                   IN \/ x.timestamp < y.timestamp
                      \/ (x.timestamp = y.timestamp /\ x.id < y.id))
  /\ [][\A i \in 1..Len(rpState') :
          (rpState'[i] = "issued" /\ rpState[i] = "none"
             /\ ~isBatchable(rpSerialized[i].type))
            => \A j \in 1..Len(rpState) : j # i => rpState[j] \in {"none", "ok", "failed"}
                                                   /\ (j < i => rpState[j] # "none")]_vars
  /\ [](rpPc \in {"done", "failed"} =>
          \A i \in 1..Len(rpState) : rpState[i] # "issued")

\* a replay ended whose log was out of timestamp order and had a key event
\* behind a mouse move
C31_Witness ==
  /\ rpPc = "done"
  /\ Len(rpOrder) = Len(rpLog)
  /\ \E a, b \in 1..Len(rpLog) :
        a < b /\ rpLog[a].timestamp > rpLog[b].timestamp
  /\ \E a, b \in 1..Len(rpOrder) :
        /\ a < b
        /\ isBatchable(rpSerialized[rpOrder[a]].type)
        /\ ~isBatchable(rpSerialized[rpOrder[b]].type)

\* C32: a failed dispatch never ends the replay: the step on which a dispatch
\* fails does not make replayEvents reject, a replay that rejected did so
\* before its first dispatch or after its last, and a replay that completed
\* has dispatched every event of the log.
C32_ReplayContinuesPastFailure ==
  /\ [][(\E i \in 1..Len(rpState) : rpState[i] = "issued" /\ rpState'[i] = "failed")
          => rpPc' # "failed"]_vars
  /\ [](rpPc = "failed" => (rpOrder = <<>> \/ Len(rpOrder) = Len(rpSerialized)))
  /\ [](rpPc = "done" => Len(rpOrder) = Len(rpLog))

\* a replay completed although the dispatch of an awaited key event failed,
\* with a later event dispatched successfully
C32_Witness ==
  /\ rpPc = "done"
  /\ \E i, j \in 1..Len(rpState) :
        /\ i < j
        /\ ~isBatchable(rpSerialized[i].type)
        /\ rpState[i] = "failed"
        /\ rpState[j] = "ok"

\* the steps disposeSession is to attempt on a session, in order
ExpectedSteps(navigationListener, networkCdp, ownsContext) ==
  <<"stopScreencast">>
    \o (IF navigationListener THEN <<"navigationOff">> ELSE <<>>)
    \o (IF networkCdp THEN <<"fetchDisable", "networkDetach">> ELSE <<>>)
    \o <<"cdpDetach", "pageClose">>
    \o (IF ownsContext THEN <<"contextClose">> ELSE <<>>)

\* C33: disposeSession never rejects; the steps it has attempted are a prefix
\* of stop screencast, navigation listener off, Fetch.disable and detach of
\* the network channel if present, detach of the primary channel, page close,
\* and context close if and only if ownsContext, whatever failed; when it
\* returns it has attempted them all.
C33_DisposeAttemptsEveryStep ==
  /\ dsPc # "rejected"
  /\ LET exp == ExpectedSteps(dsSess.navigationListener, dsSess.networkCdp,
                              dsSess.ownsContext)
     IN /\ Len(dsLog) <= Len(exp)
        /\ \A i \in 1..Len(dsLog) : dsLog[i].step = exp[i]
        /\ dsPc = "returned" => Len(dsLog) = Len(exp)

\* a session owning its context and having a network channel was disposed
\* with every protocol step failing
C33_Witness ==
  /\ dsPc = "returned"
  /\ dsSess.networkCdp
  /\ dsSess.ownsContext
  /\ Len(dsLog) = 7
  /\ \A i \in 1..Len(dsLog) : dsLog[i].step # "navigationOff" => ~dsLog[i].ok

\* the sum of a field over the wheel events of a window
RECURSIVE SumOf(_, _)
SumOf(window, f) ==
  IF window = <<>> THEN 0
  ELSE window[Len(window)][f] + SumOf(SubSeq(window, 1, Len(window) - 1), f)

\* C34: every mouseWheel record of the log carries the sums of the deltas of
\* the wheel events received while recording since the flush or reset before
\* it and the position of the last of them, and was appended at least
\* AGGREGATE_INTERVAL after that flush or reset; the events still accumulating
\* are the ones received since the last flush, so no delta enters two records.
C34_WheelRecordSumsWindow ==
  /\ \A i \in 1..Len(eventLog) :
        eventLog[i].type = "mouseWheel" =>
          LET r == eventLog[i]
              last == r.window[Len(r.window)]
          IN /\ r.window # <<>>
             /\ r.data.deltaX = SumOf(r.window, "deltaX")
             /\ r.data.deltaY = SumOf(r.window, "deltaY")
             /\ r.data.x = last.x
             /\ r.data.y = last.y
             /\ r.timestamp - r.since >= AGGREGATE_INTERVAL
  /\ scrollAccumulator.deltaX = SumOf(wheelWindow, "deltaX")
  /\ scrollAccumulator.deltaY = SumOf(wheelWindow, "deltaY")
  /\ scrollAccumulator.lastFlush = wheelSince

\* a record aggregating two wheel events at different positions
C34_Witness ==
  \E i \in 1..Len(eventLog) :
     /\ eventLog[i].type = "mouseWheel"
     /\ Len(eventLog[i].window) = 2
     /\ eventLog[i].window[1].deltaY # 0
     /\ eventLog[i].window[2].deltaX # 0
     /\ eventLog[i].window[1].x # eventLog[i].window[2].x

\* C35 as stated: the running total equals the sum of the stored body sizes,
\* and a set on an existing key is admitted exactly when total - old size +
\* new size is within the ceiling, changing the total by that net delta.
C35_ReplacementAdmittedByNetDelta ==
  /\ nc.totalSize = SumBodies(nc.cache)
  /\ NCStats(nc).totalSize = SumBodies(nc.cache)
  /\ (lastOp.op = "set" /\ MapHas(lastOp.before.cache, lastOp.key)) =>
        LET total == TotalAfter(lastOp.before, lastOp.key, lastOp.response[1])
        IN /\ lastOp.result = (total <= maxSize)
           /\ lastOp.result => nc.totalSize = total

\* C35, amended: the running total equals the sum of the stored body sizes
\* after any sequence of set, delete, clear and import; a set on an existing
\* key of a response the per-entry rule admits is admitted exactly when total
\* - old size + new size is within the ceiling, and changes the total by that
\* net delta; a refused set leaves the total as it was.
C35_AdmissibleReplacementByNetDelta ==
  /\ nc.totalSize = SumBodies(nc.cache)
  /\ NCStats(nc).totalSize = SumBodies(nc.cache)
  /\ (lastOp.op = "set" /\ MapHas(lastOp.before.cache, lastOp.key)) =>
        LET total == TotalAfter(lastOp.before, lastOp.key, lastOp.response[1])
        IN /\ shouldCache(lastOp.response[1]) => lastOp.result = (total <= maxSize)
           /\ lastOp.result => nc.totalSize = total
           /\ ~lastOp.result => nc.totalSize = lastOp.before.totalSize

\* a replacement was admitted that the gross addition would have pushed over
\* the ceiling
C35_Witness ==
  /\ lastOp.op = "set"
  /\ lastOp.result
  /\ MapHas(lastOp.before.cache, lastOp.key)
  /\ lastOp.before.totalSize + lastOp.response[1].size > maxSize
  /\ nc.totalSize = TotalAfter(lastOp.before, lastOp.key, lastOp.response[1])
  /\ nc.totalSize = SumBodies(nc.cache)

\* C36: when cloneSession has returned a session, that session's cache holds
\* no entry and no byte, the source's cache holds every key of the manifest's
\* snapshot, and the step that cleared the import left the source's cache as
\* it was.
C36_ReturnedCloneCacheCleared ==
  /\ [](pc = "postCDP" =>
          /\ CacheView("clone").entries = <<>>
          /\ CacheView("clone").stats.entries = 0
          /\ CacheView("clone").stats.totalSize = 0
          /\ \A i \in 1..Len(manifest.networkCacheSnapshot) :
                MapHas(CacheView("src").entries, manifest.networkCacheSnapshot[i].key))
  /\ [][(pc = "disableOk" /\ pc' = "postCDP") =>
          (CacheView("src")' = CacheView("src")
             /\ Len(CacheView("src").entries) >= Len(manifest.networkCacheSnapshot))]_vars

\* cloneSession returned after its interception served a request from the
\* imported snapshot
C36_Witness ==
  /\ pc = "postCDP"
  /\ manifest.networkCacheSnapshot # <<>>
  /\ \E i \in 1..Len(reqs) : reqs[i].cached # <<>> /\ reqs[i].served # <<>>
  /\ CacheView("src").stats.entries > 0
  /\ CacheView("clone").stats.entries = 0


\* C37: a connection presenting the clone identifier attaches exactly when the
\* identifier is pending at that moment and is turned away otherwise, so at
\* most one connection is attached to the clone; a connection turned away has
\* no session and no connection id, and the steps of its close handler leave
\* the live map and the set of disposed sessions as they were.
C37_OnlyPendingIdentifierAttaches ==
  /\ [](Cardinality({w \in Conns : created[w] = "clone"}) <= 1)
  /\ [](\A w \in Conns : openPc[w] = "rejected"
            => created[w] = "none" /\ wsConnectionId[w] = "undefined")
  /\ [][\A w \in Conns :
          /\ (created[w] # "clone" /\ created'[w] = "clone")
                => /\ clonedConnectionId \in DOMAIN entries
                   /\ entries[clonedConnectionId].session = "clone"
                   /\ clonedConnectionId \notin DOMAIN entries'
          /\ (openPc[w] # "rejected" /\ openPc'[w] = "rejected")
                => clonedConnectionId \notin DOMAIN entries
          /\ (openPc[w] = "rejected" /\ closePc'[w] # closePc[w])
                => contexts' = contexts /\ connDisposed' = connDisposed]_vars

\* one connection is attached to the clone and still registered, another that
\* presented the same identifier was turned away and has closed
C37_Witness ==
  \E w, v \in Conns :
    /\ created[w] = "clone"
    /\ clonedConnectionId \in DOMAIN contexts
    /\ contexts[clonedConnectionId] = "clone"
    /\ "clone" \notin connDisposed
    /\ openPc[v] = "rejected"
    /\ closePc[v] = "done"


\* C38 as stated, for the sessions that have left the store: every session
\* handed to add (identified by the timer handle of its add call) that the
\* store no longer holds was returned by take or handed to the dispose
\* callback, exactly one of the two.
C38_LeavesThroughTakeOrDispose ==
  \A t \in DOMAIN timerInfo :
    (\A id \in DOMAIN entries : entries[id].timeout # t)
       => \/ t \in taken /\ DisposeCount(t) = 0
          \/ t \notin taken /\ DisposeCount(t) = 1


\* C39 as stated: while the clone is pending in the store or live on a
\* connection, the browser context in which it has its page is open, whatever
\* other session has been torn down.
C39_CloneContextOutlivesSource ==
  ("clone" \in DOMAIN sess
     /\ (cloneLive \/ \E id \in DOMAIN entries : entries[id].session = "clone"))
    => (sess["clone"].context \in openContexts /\ sess["clone"].page \in openPages)


\* a message of connection c naming session sid is handled, or its handling
\* resumes
MsMessageOn(c, sid) ==
  \/ \E ok \in BOOLEAN : MsNavigate(c, sid, ok)
  \/ MsInput(c, sid)
  \/ \E tier \in MsTierNames, ok \in BOOLEAN : MsSetQualityTier(c, sid, tier, ok)
  \/ MsCloseSession(c, sid)
  \/ \E ok \in BOOLEAN : MsCloseSettle(c, sid, ok)

\* C40 as stated: a step of the handling of a message from a connection that
\* names a session registered to another connection leaves the session
\* registered, in its owner's set, with its context open or closed as before,
\* and with the same owner, tier, url and inputs.
C40_ForeignMessageLeavesSession ==
  [][\A c \in MsConns, sid \in MsIds :
       (sid \in DOMAIN msSessions /\ msSessions[sid].connectionId # c /\ MsMessageOn(c, sid))
         => /\ sid \in DOMAIN msSessions'
            /\ msSessions'[sid] = msSessions[sid]
            /\ sid \in msConnSessions'[msSessions[sid].connectionId]
            /\ (sid \in msContexts') = (sid \in msContexts)]_vars

====
